---- MODULE Spec2Model ----
(***************************************************************************)
(* A model of sc8pr's shape geometry: Line, Polygon (sc8pr/shape.py) and   *)
(* PVector (sc8pr/plot/shape.py).                                          *)
(*                                                                         *)
(* Numbers.  Python floats are modelled by exact numbers of the form       *)
(* (n/d)*sqrt(r), r a square-free positive integer: coordinates are        *)
(* rationals (r = 1) and math.hypot of rationals is such a number, so the  *)
(* unit vector and every parameter of a Line is represented exactly.       *)
(*                                                                         *)
(* Rounding.  A float differs from the exact number by its rounding, which *)
(* shows where the code takes a discrete step.  There the model computes   *)
(* the floats themselves, as IEEE 754 doubles: in the range tests of       *)
(* Line.intersect for a crossing that is, in exact arithmetic, at an end   *)
(* of a segment, and in pygame.Rect, whose int() truncates the floats of   *)
(* the vertices.  A Polygon holds both its exact numbers and its floats.   *)
(***************************************************************************)
EXTENDS Integers, Sequences, FiniteSets, TLC

VARIABLES
    scene,    \* which objects exist: "line", "polygon", "style", "hit",
              \* "resize", "vector", "parse"
    argsA,    \* the constructor arguments of lineA
    lineA,    \* a Line
    poly,     \* a Polygon
    vec,      \* a PVector
    heap,     \* the PVector objects that lists refer to, by their index
    geomOps,  \* how many rotate, resize and pos operations the object has been through
    trail,    \* the last two of them: the operation, its argument, the object before
    target,   \* the argument of the last operation
    op,       \* the last operation
    result    \* what the last operation returned

vars == <<scene, argsA, lineA, poly, vec, heap, geomOps, trail, target, op, result>>

\* Python's None
None == [kind |-> "None"]

\* the value of an expression, computed once
TheOne(S) == CHOOSE x \in S : TRUE

-----------------------------------------------------------------------------
(* Exact arithmetic on numbers (n/d)*sqrt(r) *)

IAbs(i) == IF i < 0 THEN -i ELSE i

RECURSIVE Gcd(_, _)
Gcd(a, b) == IF b = 0 THEN a ELSE Gcd(b, a % b)

RECURSIVE SqFrom(_, _)
\* the largest k >= 1, built from factors >= f, with k*k dividing m
SqFrom(m, f) ==
    IF f * f > m THEN 1
    ELSE IF m % (f * f) = 0 THEN f * SqFrom(m \div (f * f), f)
    ELSE SqFrom(m, f + 1)

SqPart(m) == SqFrom(m, 2)

\* the number (n/d)*sqrt(r) in canonical form, for d # 0 and r square-free
Norm(n, d, r) ==
    IF n = 0 /\ d # 0 THEN [n |-> 0, d |-> 1, r |-> 1]
    ELSE LET sn == IF d < 0 THEN -n ELSE n
             sd == IAbs(d)
             g  == Gcd(IAbs(sn), sd)
         IN  CASE d # 0 -> [n |-> sn \div g, d |-> sd \div g, r |-> r]

\* the rational n/d
Mk(n, d) == Norm(n, d, 1)

Int2Num(i) == Mk(i, 1)
Zero == Int2Num(0)
One == Int2Num(1)
Two == Int2Num(2)

Sign(a) == IF a.n > 0 THEN 1 ELSE IF a.n < 0 THEN -1 ELSE 0
Neg(a) == [a EXCEPT !.n = -a.n]
\* sqrt(r1)*sqrt(r2) = g*sqrt((r1/g)*(r2/g)) with g = gcd(r1, r2), r1 and r2 square-free
Mul(a, b) ==
    LET g  == Gcd(a.r, b.r)
        g1 == Gcd(IAbs(a.n), b.d)
        g2 == Gcd(IAbs(b.n), a.d)
    IN  Norm((a.n \div g1) * (b.n \div g2) * g, (a.d \div g2) * (b.d \div g1),
             (a.r \div g) * (b.r \div g))
\* a / b; b = 0 is Python's ZeroDivisionError and is excluded by the callers' guards
Div(a, b) ==
    Mul(a, Norm(b.d, b.n * b.r, b.r))
\* a + b; the two are rational multiples of the same square root wherever the code adds
Add(a, b) ==
    IF a.n = 0 THEN b
    ELSE IF b.n = 0 THEN a
    ELSE LET g == Gcd(a.d, b.d)
         IN  CASE a.r = b.r ->
                 Norm(a.n * (b.d \div g) + b.n * (a.d \div g), (a.d \div g) * b.d, a.r)
Sub(a, b) == Add(a, Neg(b))
NumAbs(a) == [a EXCEPT !.n = IAbs(a.n)]

\* a < b
Lt(a, b) ==
    IF a.n = 0 \/ b.n = 0 \/ a.r = b.r THEN Sign(Sub(a, b)) < 0
    ELSE IF Sign(a) # Sign(b) THEN Sign(a) < Sign(b)
    ELSE LET a2 == Mul(a, a)
             b2 == Mul(b, b)
         IN  IF Sign(a) > 0 THEN Sign(Sub(a2, b2)) < 0 ELSE Sign(Sub(b2, a2)) < 0
Le(a, b) == ~Lt(b, a)
Gt(a, b) == Lt(b, a)
Ge(a, b) == ~Lt(a, b)
NumMin(a, b) == IF Lt(b, a) THEN b ELSE a
NumMax(a, b) == IF Lt(a, b) THEN b ELSE a

\* math.hypot(x, y) of two rationals
hypot(x, y) ==
    LET s  == Add(Mul(x, x), Mul(y, y))
        kn == SqPart(s.n)
        kd == SqPart(s.d)
        fd == s.d \div (kd * kd)
    IN  IF s.n = 0 THEN Zero
        ELSE Norm(kn, kd * fd, (s.n \div (kn * kn)) * fd)

RECURSIVE LeScaled(_, _, _)
\* m * 10^e <= k, for naturals m, k
LeScaled(m, k, e) == IF e = 0 THEN m <= k ELSE LeScaled(m, k \div 10, e - 1)

\* a <= 10^(-e)
LeTenPowNeg(a, e) ==
    \/ Sign(a) <= 0
    \/ LET a2 == Mul(a, a) IN LeScaled(a2.n, a2.d, 2 * e)

-----------------------------------------------------------------------------
(* Python floats: IEEE 754 binary64, rounded to the nearest, ties to even *)

\* a natural number of any size is the sequence of its digits to the base Limb, the
\* lowest first and the highest not 0
Limb == 32768
LimbBits == 15
\* the bits of the mantissa of a float, and the further bits of a quotient or a root
\* that decide its rounding
MantissaBits == 53
GuardBits == 3

\* F(a) and F(a, b), with the arguments computed once
Strict1(F(_), a) == TheOne({F(x) : x \in {a}})
Strict2(F(_, _), a, b) == TheOne({F(x, y) : x \in {a}, y \in {b}})

RECURSIVE Pow2(_)
Pow2(k) == IF k = 0 THEN 1 ELSE 2 * Pow2(k - 1)

RECURSIVE bitLength(_)
bitLength(k) == IF k = 0 THEN 0 ELSE 1 + bitLength(k \div 2)

RECURSIVE trailingZeros(_)
trailingZeros(k) == IF k % 2 = 1 THEN 0 ELSE 1 + trailingZeros(k \div 2)

limbAt(a, i) == IF i <= Len(a) THEN a[i] ELSE 0

zeroLimbs(n) == [i \in 1 .. n |-> 0]

RECURSIVE natTrimmed(_)
natTrimmed(a) ==
    IF Len(a) > 0 /\ a[Len(a)] = 0 THEN natTrimmed(SubSeq(a, 1, Len(a) - 1)) ELSE a

natTrim(a) == Strict1(natTrimmed, a)

RECURSIVE natFromInt(_)
natFromInt(k) == IF k = 0 THEN <<>> ELSE <<k % Limb>> \o natFromInt(k \div Limb)

RECURSIVE natToInt(_)
natToInt(a) == IF a = <<>> THEN 0 ELSE a[1] + Limb * natToInt(Tail(a))

RECURSIVE natCmpFrom(_, _, _)
natCmpFrom(a, b, i) ==
    IF i = 0 THEN 0
    ELSE IF a[i] < b[i] THEN -1
    ELSE IF a[i] > b[i] THEN 1
    ELSE natCmpFrom(a, b, i - 1)

natCompared(a, b) ==
    IF Len(a) < Len(b) THEN -1
    ELSE IF Len(a) > Len(b) THEN 1
    ELSE natCmpFrom(a, b, Len(a))

natCmp(a, b) == Strict2(natCompared, a, b)

RECURSIVE carried(_, _, _)
\* the digits of the number whose digits, before the carries, are t[i], ..., with the
\* carry c into t[i]
carried(t, i, c) ==
    IF i > Len(t) THEN natFromInt(c)
    ELSE TheOne({<<v % Limb>> \o carried(t, i + 1, v \div Limb) : v \in {t[i] + c}})

natLen(a, b) == IF Len(a) > Len(b) THEN Len(a) ELSE Len(b)

natAdded(a, b) == carried([i \in 1 .. natLen(a, b) |-> limbAt(a, i) + limbAt(b, i)], 1, 0)

natAdd(a, b) == Strict2(natAdded, a, b)

RECURSIVE borrowed(_, _, _)
borrowed(t, i, c) ==
    IF i > Len(t) THEN <<>>
    ELSE TheOne({IF v < 0 THEN <<v + Limb>> \o borrowed(t, i + 1, 1)
               ELSE <<v>> \o borrowed(t, i + 1, 0) : v \in {t[i] - c}})

\* a - b, for a >= b
natSubtracted(a, b) == natTrim(borrowed([i \in 1 .. Len(a) |-> a[i] - limbAt(b, i)], 1, 0))

natSub(a, b) == Strict2(natSubtracted, a, b)

\* a * k, for k < Limb
natMultipliedSmall(a, k) ==
    IF k = 0 THEN <<>> ELSE carried([i \in 1 .. Len(a) |-> a[i] * k], 1, 0)

natMulSmall(a, k) == Strict2(natMultipliedSmall, a, k)

RECURSIVE natMulFrom(_, _, _)
natMulFrom(a, b, j) ==
    IF j > Len(b) THEN <<>>
    ELSE natAdd(zeroLimbs(j - 1) \o natMulSmall(a, b[j]), natMulFrom(a, b, j + 1))

natMultiplied(a, b) == natTrim(natMulFrom(a, b, 1))

natMul(a, b) == Strict2(natMultiplied, a, b)

\* a * 2^k
natShifted(a, k) ==
    IF a = <<>> THEN <<>>
    ELSE zeroLimbs(k \div LimbBits) \o natMulSmall(a, Pow2(k % LimbBits))

natShl(a, k) == Strict2(natShifted, a, k)

\* a \div 2^r, for r < LimbBits
natHalved(a, r) ==
    natTrim([i \in 1 .. Len(a) |->
        (a[i] \div Pow2(r)) + (limbAt(a, i + 1) % Pow2(r)) * Pow2(LimbBits - r)])

natShrSmall(a, r) == Strict2(natHalved, a, r)

\* a \div 2^k
natShiftedDown(a, k) ==
    IF k \div LimbBits >= Len(a) THEN <<>>
    ELSE natShrSmall(SubSeq(a, (k \div LimbBits) + 1, Len(a)), k % LimbBits)

natShr(a, k) == Strict2(natShiftedDown, a, k)

natBitsOf(a) == IF a = <<>> THEN 0 ELSE LimbBits * (Len(a) - 1) + bitLength(a[Len(a)])

natBits(a) == Strict1(natBitsOf, a)

natOdd(a) == a # <<>> /\ a[1] % 2 = 1

natOne == <<1>>

RECURSIVE digitFrom(_, _, _)
\* r \div d and r % d from a quotient q that is not too high, with r the rest for q
digitFrom(q, r, d) ==
    IF natCmp(r, d) >= 0
    THEN TheOne({digitFrom(q + 1, r2, d) : r2 \in {natSub(r, d)}})
    ELSE [q |-> q, r |-> r]

\* r \div d and r % d, for r < d * Limb: the quotient is estimated from the highest
\* bits of r and of d, never too high, and then counted up; high is d without its
\* lowest sh bits, and one more when bits were dropped
digit(r, d, sh, high) ==
    TheOne({digitFrom(q, natSub(r, natMulSmall(d, q)), d) :
          q \in {natToInt(natShr(r, sh)) \div high}})

RECURSIVE divFrom(_, _, _, _, _, _)
\* the long division of the digits i, i - 1, ..., 1 of n by d
divFrom(n, d, sh, high, i, st) ==
    IF i = 0 THEN st
    ELSE TheOne({divFrom(n, d, sh, high, i - 1, [q |-> <<qr.q>> \o st.q, r |-> qr.r]) :
               qr \in {digit(natTrim(<<n[i]>> \o st.r), d, sh, high)}})

\* the division starts below the highest Len(d) - 1 digits of n, which are less than d
natDividedBy(n, d, sh) ==
    TheOne({[q |-> natTrim(st.q), r |-> st.r] :
          st \in {divFrom(n, d, sh,
                          natToInt(natShr(d, sh)) + (IF sh = 0 THEN 0 ELSE 1),
                          Len(n) - Len(d) + 1,
                          [q |-> <<>>,
                           r |-> natTrim(SubSeq(n, Len(n) - Len(d) + 2, Len(n)))])}})

natDivided(n, d) ==
    IF Len(n) < Len(d) THEN [q |-> <<>>, r |-> n]
    ELSE natDividedBy(n, d, IF natBits(d) > LimbBits THEN natBits(d) - LimbBits ELSE 0)

\* n \div d and n % d
natDivMod(n, d) == Strict2(natDivided, n, d)

RECURSIVE isqrtBetween(_, _, _)
\* the root r of n, rounded down, for lo <= r < hi
isqrtBetween(n, lo, hi) ==
    IF hi - lo <= 1 THEN lo
    ELSE TheOne({IF mid * mid <= n THEN isqrtBetween(n, mid, hi)
               ELSE isqrtBetween(n, lo, mid) : mid \in {(lo + hi) \div 2}})

\* for n below 2^31
isqrt(n) == isqrtBetween(n, 0, 46341)

\* a step of Newton's iteration for the root of x
natSqrtStep(x, y) == natShr(natAdd(y, natDivMod(x, y).q), 1)

RECURSIVE natSqrtFrom(_, _)
\* the root of x, rounded down, by Newton's iteration from a y that is not below it:
\* the steps go down until they reach it
natSqrtFrom(x, y) ==
    TheOne({IF natCmp(z, y) < 0 THEN natSqrtFrom(x, z) ELSE y : z \in {natSqrtStep(x, y)}})

\* the root of x > 0, rounded down.  The iteration starts above it: from the root of
\* the bits of x above the lowest 2 * s, which are fewer than 31, rounded down, plus 1,
\* with s more bits
natSqrtWith(x, s) ==
    TheOne({natSqrtFrom(x, y) :
            y \in {natShl(natFromInt(isqrt(natToInt(natShr(x, 2 * s))) + 1), s)}})

natSqrt(x) ==
    TheOne({natSqrtWith(y, IF natBits(y) <= 30 THEN 0 ELSE (natBits(y) - 29) \div 2) :
            y \in {x}})

(* floats: neg, mantissa m (odd, below 2^53), exponent e: the value is
   m * 2^e, negated when neg *)
floatZero == [neg |-> FALSE, m |-> <<>>, e |-> 0]

RECURSIVE canonicalOf(_, _, _)
canonicalOf(neg, m, e) ==
    IF m = <<>> THEN floatZero
    ELSE IF m[1] = 0 THEN canonicalOf(neg, Tail(m), e + LimbBits)
    ELSE [neg |-> neg, m |-> natShrSmall(m, trailingZeros(m[1])),
          e |-> e + trailingZeros(m[1])]

canonical(neg, m, e) == TheOne({canonicalOf(neg, x, e) : x \in {m}})

\* n * 2^e, or a little more when sticky, rounded to MantissaBits bits: the bits
\* below them are dropped, and the mantissa goes up when they are more than half a
\* unit, or half a unit and the mantissa is odd
roundedTo(neg, n, e, sticky, sh) ==
    TheOne({TheOne({canonical(neg,
                          IF c > 0 \/ (c = 0 /\ (sticky \/ natOdd(q)))
                          THEN natAdd(q, natOne) ELSE q,
                          e + sh) :
                c \in {natCmp(natSub(n, natShl(q, sh)), natShl(natOne, sh - 1))}}) :
          q \in {natShr(n, sh)}})

round(neg, n, e, sticky) ==
    TheOne({IF natBits(x) <= MantissaBits THEN canonical(neg, x, e)
          ELSE roundedTo(neg, x, e, sticky, natBits(x) - MantissaBits) : x \in {n}})

floatOfInt(k) == canonical(k < 0, natFromInt(IF k < 0 THEN -k ELSE k), 0)

floatNegated(a) == IF a.m = <<>> THEN a ELSE [a EXCEPT !.neg = ~a.neg]

floatNeg(a) == Strict1(floatNegated, a)

floatAbsOf(a) == [a EXCEPT !.neg = FALSE]

floatAbs(a) == Strict1(floatAbsOf, a)

\* a product with a power of two is exact
floatMultiplied(a, b) ==
    IF a.m = <<>> \/ b.m = <<>> THEN floatZero
    ELSE IF a.m = natOne THEN [neg |-> a.neg # b.neg, m |-> b.m, e |-> a.e + b.e]
    ELSE IF b.m = natOne THEN [neg |-> a.neg # b.neg, m |-> a.m, e |-> a.e + b.e]
    ELSE round(a.neg # b.neg, natMul(a.m, b.m), a.e + b.e, FALSE)

floatMul(a, b) == Strict2(floatMultiplied, a, b)

floatSum(a, b, e) ==
    TheOne({IF a.neg = b.neg THEN round(a.neg, natAdd(x, y), e, FALSE)
          ELSE IF natCmp(x, y) = 0 THEN floatZero
          ELSE IF natCmp(x, y) > 0 THEN round(a.neg, natSub(x, y), e, FALSE)
          ELSE round(b.neg, natSub(y, x), e, FALSE) :
          x \in {natShl(a.m, a.e - e)}, y \in {natShl(b.m, b.e - e)}})

floatAdded(a, b) ==
    IF a.m = <<>> THEN b
    ELSE IF b.m = <<>> THEN a
    ELSE floatSum(a, b, IF a.e < b.e THEN a.e ELSE b.e)

floatAdd(a, b) == Strict2(floatAdded, a, b)

floatSub(a, b) == floatAdd(a, floatNeg(b))

floatQuotient(a, b, k) ==
    TheOne({round(a.neg # b.neg, qr.q, a.e - b.e - k, qr.r # <<>>) :
          qr \in {natDivMod(natShl(a.m, k), b.m)}})

\* a quotient by a power of two is exact
floatDivided(a, b) ==
    IF a.m = <<>> THEN floatZero
    ELSE IF b.m = natOne THEN [neg |-> a.neg # b.neg, m |-> a.m, e |-> a.e - b.e]
    ELSE floatQuotient(a, b, MantissaBits + GuardBits + natBits(b.m) - natBits(a.m))

floatDiv(a, b) == Strict2(floatDivided, a, b)

floatCmp(a, b) ==
    TheOne({IF d.m = <<>> THEN 0 ELSE IF d.neg THEN -1 ELSE 1 : d \in {floatSub(a, b)}})

floatLe(a, b) == floatCmp(a, b) <= 0

floatLt(a, b) == floatCmp(a, b) < 0

floatTruncated(a) ==
    IF a.e >= 0 THEN a ELSE canonical(a.neg, natShr(a.m, -a.e), 0)

\* int(a): the whole number that a is truncated to, toward zero.  It has no bound,
\* and a float holds it exactly, so it is kept as one
floatTrunc(a) == Strict1(floatTruncated, a)

\* a whole number as a C int, which is what pygame.Rect keeps: below 2^31
floatWhole(a) == (IF a.neg THEN -1 ELSE 1) * natToInt(natShl(a.m, a.e))

floatMin(a, b) == IF floatLt(b, a) THEN b ELSE a

floatMax(a, b) == IF floatLt(a, b) THEN b ELSE a

\* the float of n / d: the number itself when d is a power of two and a float holds
\* it, and else the quotient of the two floats, which is the float nearest to it
floatOf(a) ==
    IF a.d = Pow2(bitLength(a.d) - 1)
    THEN canonical(a.n < 0, natFromInt(IAbs(a.n)), 1 - bitLength(a.d))
    ELSE floatDiv(floatOfInt(a.n), floatOfInt(a.d))

\* the square root of s * 4^e for a natural number s > 0, rounded to the nearest
\* float: from the root of s * 4^k, rounded down, which has MantissaBits + GuardBits
\* bits or more, and whether it is the root itself
floatRootOf(t, e, k) ==
    TheOne({round(FALSE, r, e - k, natCmp(natMul(r, r), t) # 0) : r \in {natSqrt(t)}})

floatRootWith(s, e, k) == TheOne({floatRootOf(t, e, k) : t \in {natShl(s, 2 * k)}})

floatRoot(s, e) ==
    TheOne({floatRootWith(s, e, IF b >= 2 * (MantissaBits + GuardBits) THEN 0
                                ELSE (2 * (MantissaBits + GuardBits) - b + 1) \div 2) :
            b \in {natBits(s)}})

\* math.hypot(x, y): the correctly rounded square root of x*x + y*y, from the two
\* mantissas at the lower exponent e of the two
floatHypotAt(x, y, e) ==
    TheOne({floatRoot(natAdd(natMul(a, a), natMul(b, b)), e) :
            a \in {natShl(x.m, x.e - e)}, b \in {natShl(y.m, y.e - e)}})

floatHypotOf(x, y) ==
    IF x.m = <<>> THEN floatAbsOf(y)
    ELSE IF y.m = <<>> THEN floatAbsOf(x)
    ELSE floatHypotAt(x, y, IF x.e < y.e THEN x.e ELSE y.e)

floatHypot(x, y) == Strict2(floatHypotOf, x, y)

\* math.sqrt(a): the square root of a, rounded to the nearest float
floatSqrtOf(a) ==
    IF a.m = <<>> THEN floatZero
    ELSE IF a.e % 2 = 0 THEN floatRoot(a.m, a.e \div 2)
    ELSE floatRoot(natShl(a.m, 1), (a.e - 1) \div 2)

floatSqrt(a) == Strict1(floatSqrtOf, a)

-----------------------------------------------------------------------------
(* Line (sc8pr/shape.py) *)

\* Line.resolution = 1e-10, as the exponent of ten
resolutionExp == 10

\* Python's truth value of a number or None
Truthy(x) == x # None /\ x.n # 0

\* Line.__init__(start, point, vector): the direction before normalisation.
\* An argument is None, a tuple [kind |-> "tuple", v |-> <<x, y>>] or, for vector,
\* a number [kind |-> "number", v |-> m].
LineDirection(start, point, vector) ==
    IF point # None THEN <<Sub(point.v[1], start[1]), Sub(point.v[2], start[2])>>
    ELSE IF vector.kind = "number" THEN <<One, vector.v>>
    ELSE vector.v

\* Line.__init__ divides by hypot(ux, uy): a zero direction raises ZeroDivisionError
LineInitOk(start, point, vector) ==
    LET dir == LineDirection(start, point, vector)
    IN  hypot(dir[1], dir[2]) # Zero

\* Line.__init__
LineInit(start, point, vector) ==
    LET dir == LineDirection(start, point, vector)
        ux  == dir[1]
        uy  == dir[2]
        u   == hypot(ux, uy)
    IN  [pos    |-> start,
         size   |-> <<NumAbs(ux), NumAbs(uy)>>,
         length |-> u,
         u      |-> <<Div(ux, u), Div(uy, u)>>]

\* Line.point
point(self, s) ==
    <<Add(self.pos[1], Mul(s, self.u[1])), Add(self.pos[2], Mul(s, self.u[2]))>>

\* Line.midpoint
midpoint(self) == point(self, Div(self.length, Two))

\* Line.parameters
parameters(self, pt) ==
    LET dx == Sub(pt[1], self.pos[1])
        dy == Sub(pt[2], self.pos[2])
        ux == self.u[1]
        uy == self.u[2]
    IN  <<Add(Mul(ux, dx), Mul(uy, dy)), Sub(Mul(ux, dy), Mul(uy, dx))>>

\* a closest that never clamps: the closest point of the unbounded line
closestUnclamped(self, pt) == point(self, parameters(self, pt)[1])

\* Line.closest
closest(self, pt) ==
    LET s == parameters(self, pt)[1]
        l == self.length
    IN  IF Truthy(l)
        THEN IF Lt(s, Zero) THEN point(self, Zero)
             ELSE IF Gt(s, l) THEN point(self, l)
             ELSE point(self, s)
        ELSE point(self, s)

\* Line.resize(size): the arguments of the __init__ it runs again
resizeArgs(self, sz) ==
    LET dx == IF Lt(self.u[1], Zero) THEN Neg(sz[1]) ELSE sz[1]
        dy == IF Lt(self.u[2], Zero) THEN Neg(sz[2]) ELSE sz[2]
    IN  [start |-> self.pos, point |-> None,
         vector |-> [kind |-> "tuple", v |-> <<dx, dy>>]]

\* Line.resize(size)
resizeLine(self, sz) ==
    LET a == resizeArgs(self, sz)
    IN  LineInit(a.start, a.point, a.vector)

\* the direction (ux, uy) that Line.__init__ normalised
direction(self) ==
    <<IF Lt(self.u[1], Zero) THEN Neg(self.size[1]) ELSE self.size[1],
      IF Lt(self.u[2], Zero) THEN Neg(self.size[2]) ELSE self.size[2]>>

\* a point in floats
floatPair(pt) == <<floatOf(pt[1]), floatOf(pt[2])>>

\* Line.__init__ in floats, from the direction (ux, uy):
\* length = hypot(ux, uy) and u = (ux / length, uy / length)
floatUnitOf(d, h) == [length |-> h, u |-> <<floatDiv(d[1], h), floatDiv(d[2], h)>>]

floatUnit(d) == TheOne({floatUnitOf(d, h) : h \in {floatHypot(d[1], d[2])}})

\* the directions with whole components up to KnownCoord, and their floats, which
\* are computed once
KnownCoord == 4
KnownDirections ==
    {<<floatOfInt(x), floatOfInt(y)>> : x \in -KnownCoord .. KnownCoord,
                                        y \in -KnownCoord .. KnownCoord}
        \ {<<floatZero, floatZero>>}
floatUnits == [d \in KnownDirections |-> floatUnit(d)]

floatUnitFor(d) == IF d \in KnownDirections THEN floatUnits[d] ELSE floatUnit(d)

\* Line.__init__ in floats, from the start and the direction
floatLineOf(start, d) == [pos |-> start, length |-> d.length, u |-> d.u]

\* the floats of a line whose start and direction floats hold exactly
floatLine(self) ==
    TheOne({floatLineOf(floatPair(self.pos), floatUnitFor(d)) :
            d \in {floatPair(direction(self))}})

\* Line.__init__(start, point) in floats, p1 the start and p2 the point
floatLineInit(p1, p2) ==
    TheOne({floatLineOf(p1, floatUnitFor(d)) :
            d \in {<<floatSub(p2[1], p1[1]), floatSub(p2[2], p1[2])>>}})

\* Line.point in floats
floatPoint(a, s) ==
    <<floatAdd(a.pos[1], floatMul(s, a.u[1])), floatAdd(a.pos[2], floatMul(s, a.u[2]))>>

\* Line.parameters in floats: the parameter s
floatParameter(a, pt) ==
    floatAdd(floatMul(a.u[1], floatSub(pt[1], a.pos[1])),
             floatMul(a.u[2], floatSub(pt[2], a.pos[2])))

\* Line.intersect in floats, two segments of one line: the test "s1 >= s0" after
\* "s0, s1 = min(s0, s1), max(s0, s1); s0 = max(0, s0); s1 = min(self.length, s1)"
floatOverlapOf(a, s0, s1) ==
    floatLe(floatMax(floatZero, floatMin(s0, s1)), floatMin(a.length, floatMax(s0, s1)))

floatOverlap(self, other) ==
    TheOne({TheOne({floatOverlapOf(a, s0, s1) :
                    s0 \in {floatParameter(a, floatPoint(b, floatZero))},
                    s1 \in {floatParameter(a, floatPoint(b, b.length))}}) :
            a \in {floatLine(self)}, b \in {floatLine(other)}})

PointResult(p) == [kind |-> "point", pt |-> p]
TrueResult == [kind |-> "True"]

\* Line.intersect, parallel branch: the test "d <= self.resolution"
withinResolution(d) == LeTenPowNeg(d, resolutionExp)

\* Line.intersect, the branch for parallel lines (det == 0)
intersectParallel(self, other) ==
    LET sd == parameters(self, point(other, Zero))
        s0 == sd[1]
        d  == sd[2]
    IN  IF withinResolution(d)
        THEN IF self.length = None
             THEN IF other.length = None THEN TrueResult
                  ELSE PointResult(midpoint(other))
             ELSE IF other.length = None THEN PointResult(midpoint(self))
             ELSE LET s1 == parameters(self, point(other, other.length))[1]
                      lo == NumMax(Zero, NumMin(s0, s1))
                      hi == NumMin(self.length, NumMax(s0, s1))
                  IN  IF (IF hi = lo THEN floatOverlap(self, other) ELSE Ge(hi, lo))
                      THEN PointResult(point(self, Div(Add(lo, hi), Two)))
                      ELSE None
        ELSE None

\* Line.intersect, the determinant of the two unit vectors
det(self, other) ==
    Sub(Mul(other.u[1], self.u[2]), Mul(self.u[1], other.u[2]))

\* Line.intersect, det != 0: dx, dy and the parameters s1, on self, and s2, on other,
\* of the point where the two lines cross
crossingParameters(self, other) ==
    LET dt  == det(self, other)
        dx  == Sub(other.pos[1], self.pos[1])
        dy  == Sub(other.pos[2], self.pos[2])
    IN  [dx |-> dx, dy |-> dy,
         s1 |-> Div(Sub(Mul(other.u[1], dy), Mul(other.u[2], dx)), dt),
         s2 |-> Div(Sub(Mul(self.u[1], dy), Mul(self.u[2], dx)), dt)]

\* Line.intersect in floats, det != 0: u1, u2, the lengths, dx, dy and det
floatCrossingOf(a, b, dx, dy) ==
    [u1 |-> a.u, u2 |-> b.u, length1 |-> a.length, length2 |-> b.length,
     dx |-> dx, dy |-> dy,
     det |-> floatSub(floatMul(b.u[1], a.u[2]), floatMul(a.u[1], b.u[2]))]

floatCrossing(self, other) ==
    TheOne({TheOne({floatCrossingOf(a, b, dx, dy) :
                    dx \in {floatSub(b.pos[1], a.pos[1])},
                    dy \in {floatSub(b.pos[2], a.pos[2])}}) :
            a \in {floatLine(self)}, b \in {floatLine(other)}})

\* "(ux * dy - uy * dx) / det" in floats
floatCrossingParameter(u, f) ==
    floatDiv(floatSub(floatMul(u[1], f.dy), floatMul(u[2], f.dx)), f.det)

\* "s >= 0 and s <= length" in floats
floatWithin(s, length) == floatLe(floatZero, s) /\ floatLe(s, length)

floatInRange(s, length) == Strict2(floatWithin, s, length)

\* s is an end of the range "s >= 0 and s <= line.length" in exact arithmetic: the
\* rounding of the floats decides the test
atEnd(s, line) == line.length # None /\ (s = Zero \/ s = line.length)

\* the test "s >= 0 and s <= line.length", s computed with the unit vector u of the
\* other line: on the floats where their rounding decides it
rangeTest(s, line, u, length, f) ==
    IF atEnd(s, line) THEN floatInRange(floatCrossingParameter(u, f), length)
    ELSE Ge(s, Zero) /\ Le(s, line.length)

\* Line.intersect, det != 0, were the range of the other line left out
crossingOtherUnbounded(self, other, c, f) ==
    IF self.length = None \/ rangeTest(c.s1, self, f.u2, f.length1, f)
    THEN PointResult(point(self, c.s1))
    ELSE None

\* Line.intersect, det != 0, from the parameters c and the floats f
crossing(self, other, c, f) ==
    IF self.length = None \/ rangeTest(c.s1, self, f.u2, f.length1, f)
    THEN IF other.length = None \/ rangeTest(c.s2, other, f.u1, f.length2, f)
         THEN PointResult(point(self, c.s1))
         ELSE None
    ELSE None

\* the floats, where they are not looked at
NoFloats ==
    [u1 |-> <<floatZero, floatZero>>, u2 |-> <<floatZero, floatZero>>,
     length1 |-> floatZero, length2 |-> floatZero,
     dx |-> floatZero, dy |-> floatZero, det |-> floatZero]

\* Line.intersect, the branch for lines that are not parallel (det != 0)
intersectCrossing(self, other) ==
    TheOne({IF atEnd(c.s1, self) \/ atEnd(c.s2, other)
            THEN TheOne({crossing(self, other, c, f) : f \in {floatCrossing(self, other)}})
            ELSE crossing(self, other, c, NoFloats) :
            c \in {crossingParameters(self, other)}})

\* Line.intersect; two parallel lines of the scenes have unit vectors that are the
\* same floats, or opposite ones, or both components equal, so that det is 0.0 for them
intersect(self, other) ==
    IF det(self, other) # Zero THEN intersectCrossing(self, other)
    ELSE intersectParallel(self, other)

\* Line.resolution as a float
floatResolution ==
    floatDiv(floatOfInt(1), floatMul(floatOfInt(100000), floatOfInt(100000)))

\* Line.intersect in floats, two segments, det != 0: whether a point is returned
floatCrosses(f) ==
    /\ floatInRange(floatCrossingParameter(f.u2, f), f.length1)
    /\ floatInRange(floatCrossingParameter(f.u1, f), f.length2)

\* "ux * dy - uy * dx" in floats: the signed distance d of Line.parameters
floatDistance(a, pt) ==
    floatSub(floatMul(a.u[1], floatSub(pt[2], a.pos[2])),
             floatMul(a.u[2], floatSub(pt[1], a.pos[1])))

\* Line.intersect in floats, two segments, det == 0: whether a point is returned
floatTouches(a, b) ==
    /\ floatLe(floatDistance(a, floatPoint(b, floatZero)), floatResolution)
    /\ TheOne({floatOverlapOf(a, s0, s1) :
                s0 \in {floatParameter(a, floatPoint(b, floatZero))},
                s1 \in {floatParameter(a, floatPoint(b, b.length))}})

\* Line.intersect in floats, two segments a and b: the truth value of the result
floatIntersects(a, b) ==
    TheOne({IF f.det.m # <<>> THEN floatCrosses(f) ELSE floatTouches(a, b) :
            f \in {floatCrossingOf(a, b, floatSub(b.pos[1], a.pos[1]),
                                         floatSub(b.pos[2], a.pos[2]))}})

-----------------------------------------------------------------------------
(* Polygon (sc8pr/shape.py) *)

RECURSIVE MinOf(_, _)
\* min(x[i] for x in pts), over the coordinates i of the points from index k on
MinOf(xs, k) ==
    IF k = Len(xs) THEN xs[k] ELSE NumMin(xs[k], MinOf(xs, k + 1))

RECURSIVE MaxOf(_, _)
MaxOf(xs, k) ==
    IF k = Len(xs) THEN xs[k] ELSE NumMax(xs[k], MaxOf(xs, k + 1))

Column(pts, i) == [k \in 1 .. Len(pts) |-> pts[k][i]]

RECURSIVE floatMinOf(_, _)
\* min(x[i] for x in pts) of floats
floatMinOf(xs, k) ==
    IF k = Len(xs) THEN xs[k] ELSE floatMin(xs[k], floatMinOf(xs, k + 1))

RECURSIVE floatMaxOf(_, _)
floatMaxOf(xs, k) ==
    IF k = Len(xs) THEN xs[k] ELSE floatMax(xs[k], floatMaxOf(xs, k + 1))

\* the floats of the arguments of Polygon(pts, pos), which floats hold exactly
floatsOf(pts, pos) ==
    [vertices |-> [k \in 1 .. Len(pts) |-> floatPair(pts[k])],
     pos |-> IF pos # None /\ pos.kind = "tuple" THEN floatPair(pos.v)
             ELSE <<floatZero, floatZero>>]

\* sc8pr.util.rgba: a colour name as an (r, g, b, a) tuple
rgba(c) ==
    CASE c = "red" -> [kind |-> "rgba", v |-> <<255, 0, 0, 255>>]
      [] c = "blue" -> [kind |-> "rgba", v |-> <<0, 0, 255, 255>>]
      [] c = "black" -> [kind |-> "rgba", v |-> <<0, 0, 0, 255>>]

\* a colour argument: a name, or None
ColourArg(c) == IF c = "" THEN None ELSE [kind |-> "name", v |-> c]

\* the Shape.stroke and Shape.fill setters: rgba(s) if s else None
ShapeColour(s) == IF s # None THEN rgba(s.v) ELSE None

\* the class attributes of Shape and Polygon, before __init__ runs.  vertices and pos
\* are the exact numbers; held has the floats that hold them, which differ from the
\* numbers by their rounding
NewShape ==
    [fill |-> None, stroke |-> rgba("black"), weight |-> 1, angle |-> 0,
     vertices |-> <<>>, pos |-> <<Zero, Zero>>,
     rect |-> [x |-> 0, y |-> 0, w |-> 0, h |-> 0],
     srf |-> None, segCache |-> None,
     held |-> [vertices |-> <<>>, pos |-> <<floatZero, floatZero>>]]

\* Polygon.dumpCache
dumpCache(self) == [self EXCEPT !.srf = None, !.segCache = None]

\* Polygon.__init__ in floats: x0, x1, y0 and y1
floatBounds(fpts) ==
    [x0 |-> floatMinOf(Column(fpts, 1), 1), x1 |-> floatMaxOf(Column(fpts, 1), 1),
     y0 |-> floatMinOf(Column(fpts, 2), 1), y1 |-> floatMaxOf(Column(fpts, 2), 1)]

\* Polygon.__init__ in floats: the anchor
floatAnchor(f, pos, b) ==
    IF pos = None
    THEN <<floatDiv(floatAdd(b.x0, b.x1), floatOfInt(2)),
           floatDiv(floatAdd(b.y0, b.y1), floatOfInt(2))>>
    ELSE IF pos.kind = "int" THEN f.vertices[pos.v + 1]
    ELSE f.pos

\* pygame.Rect((x0, y0), size) of floats: each number truncated toward zero by int()
Rect(b) ==
    [x |-> floatWhole(floatTrunc(b.x0)),
     y |-> floatWhole(floatTrunc(b.y0)),
     w |-> floatWhole(floatTrunc(floatAbs(floatSub(b.x1, b.x0)))),
     h |-> floatWhole(floatTrunc(floatAbs(floatSub(b.y1, b.y0))))]

\* Polygon.__init__(pts, pos), on a new or an existing object.  pos is None, an
\* index [kind |-> "int", v |-> i] or a point [kind |-> "tuple", v |-> <<x, y>>];
\* f has the floats of pts and, when pos is a point, of pos.
PolygonInit(self, pts, pos, f) ==
    LET x0 == MinOf(Column(pts, 1), 1)
        x1 == MaxOf(Column(pts, 1), 1)
        y0 == MinOf(Column(pts, 2), 1)
        y1 == MaxOf(Column(pts, 2), 1)
        p  == IF pos = None
              THEN <<Div(Add(x0, x1), Two), Div(Add(y0, y1), Two)>>
              ELSE IF pos.kind = "int" THEN pts[pos.v + 1]
              ELSE pos.v
    IN  TheOne({dumpCache([self EXCEPT
                    !.pos = p,
                    !.rect = Rect(b),
                    !.vertices = pts,
                    !.held = [vertices |-> f.vertices, pos |-> floatAnchor(f, pos, b)]]) :
                b \in {floatBounds(f.vertices)}})

\* Polygon(pts, pos), for arguments that floats hold exactly
Polygon(pts, pos) == PolygonInit(NewShape, pts, pos, floatsOf(pts, pos))

\* the pos setter of Polygon, in floats
floatSetPos(self, pos) ==
    TheOne({[vertices |-> [k \in 1 .. Len(self.held.vertices) |->
                              <<floatAdd(self.held.vertices[k][1], dx),
                                floatAdd(self.held.vertices[k][2], dy)>>],
             pos |-> floatPair(pos)] :
            dx \in {floatSub(floatOf(pos[1]), self.held.pos[1])},
            dy \in {floatSub(floatOf(pos[2]), self.held.pos[2])}})

\* the pos setter of Polygon
setPos(self, pos) ==
    LET dx == Sub(pos[1], self.pos[1])
        dy == Sub(pos[2], self.pos[2])
        pts == [k \in 1 .. Len(self.vertices) |->
                   <<Add(self.vertices[k][1], dx), Add(self.vertices[k][2], dy)>>]
    IN  PolygonInit(self, pts, [kind |-> "tuple", v |-> pos], floatSetPos(self, pos))

\* Polygon.size, Polygon._rect.bottomright and .topleft
size(self) == <<self.rect.w, self.rect.h>>
bottomright(self) == <<self.rect.x + self.rect.w, self.rect.y + self.rect.h>>
topleft(self) == <<self.rect.x, self.rect.y>>

\* a pygame.Surface as what was drawn on it: its size and the polygons
Surface(sz, ops) == [kind |-> "Surface", size |-> sz, ops |-> ops]

\* Polygon.render
render(self) ==
    LET w   == self.weight
        f   == self.fill
        st  == self.stroke
        dx  == Int2Num(w - topleft(self)[1])
        dy  == Int2Num(w - topleft(self)[2])
        sz  == <<2 * w + size(self)[1], 2 * w + size(self)[2]>>
        pts == [k \in 1 .. Len(self.vertices) |->
                   <<Add(self.vertices[k][1], dx), Add(self.vertices[k][2], dy)>>]
        filled  == IF f # None THEN <<[colour |-> f, pts |-> pts, width |-> 0]>> ELSE <<>>
        stroked == IF w # 0 /\ st # None
                   THEN <<[colour |-> st, pts |-> pts, width |-> w]>> ELSE <<>>
    IN  Surface(sz, filled \o stroked)

\* the image property of Polygon: the cached surface, rendered when there is none
image(self) == IF self.srf = None THEN [self EXCEPT !.srf = render(self)] ELSE self

\* Polygon._segments
segmentsOf(self) ==
    LET pts == self.vertices
        n   == Len(pts)
    IN  [i \in 1 .. n |->
            LineInit(IF i = 1 THEN pts[n] ELSE pts[i - 1],
                     [kind |-> "tuple", v |-> pts[i]], None)]

\* Polygon._segments constructs a Line per edge: two equal neighbours raise ZeroDivisionError
segmentsOk(self) ==
    LET pts == self.vertices
        n   == Len(pts)
    IN  \A i \in 1 .. n : pts[i] # (IF i = 1 THEN pts[n] ELSE pts[i - 1])

\* a tuple of Lines, as an attribute that may also hold None
Tuple(t) == [kind |-> "tuple", v |-> t]

\* the segments property of Polygon
segments(self) ==
    IF self.segCache = None \/ self.segCache = Tuple(<<>>)
    THEN [self EXCEPT !.segCache = Tuple(segmentsOf(self))]
    ELSE self

\* Polygon.config(**kwargs) for a style keyword: the cached image is dropped, then
\* Graphic.config assigns the attribute
config(self, key, value) ==
    LET dropped == IF key \in {"fill", "stroke", "weight"}
                   THEN [self EXCEPT !.srf = None] ELSE self
    IN  CASE key = "fill" -> [dropped EXCEPT !.fill = ShapeColour(value)]
          [] key = "stroke" -> [dropped EXCEPT !.stroke = ShapeColour(value)]
          [] key = "weight" -> [dropped EXCEPT !.weight = value]

\* assignment to the attribute: the Shape.fill and Shape.stroke setters, and weight
setAttribute(self, key, value) ==
    CASE key = "fill" -> [self EXCEPT !.fill = ShapeColour(value)]
      [] key = "stroke" -> [self EXCEPT !.stroke = ShapeColour(value)]
      [] key = "weight" -> [self EXCEPT !.weight = value]

\* cos and sin of a multiple of 90 degrees
CosDeg(a) == CASE a % 360 = 0 -> One [] a % 360 = 90 -> Zero
               [] a % 360 = 180 -> Neg(One) [] a % 360 = 270 -> Zero
SinDeg(a) == CASE a % 360 = 0 -> Zero [] a % 360 = 90 -> One
               [] a % 360 = 180 -> Zero [] a % 360 = 270 -> Neg(One)

\* sc8pr.geom.transform2d: shift by preShift, rotate by the angle, shift by shift
transform2d(pt, preShift, angle, shift) ==
    LET x == Add(pt[1], preShift[1])
        y == Add(pt[2], preShift[2])
        c == CosDeg(angle)
        sn == SinDeg(angle)
    IN  <<Add(Sub(Mul(c, x), Mul(sn, y)), shift[1]),
          Add(Add(Mul(sn, x), Mul(c, y)), shift[2])>>

\* math.cos(0.5 * math.pi), which math.sin(math.pi) is the double of: the float
\* 6.123233995736766e-17
floatCosQuarter == [neg |-> FALSE, m |-> <<23559, 26152, 6296, 141>>, e |-> -106]

\* math.cos and math.sin of "rotate * DEG", DEG = math.pi / 180, for a whole number k
\* of quarter turns, up to 8 of them either way: 1 or -1, or, where the cosine or the
\* sine of the angle is 0, the float nearest to k times 6.123233995736766e-17 or its
\* opposite
floatQuarters(k) == floatMul(floatOfInt(k), floatCosQuarter)

floatCos(angle) ==
    LET k == angle \div 90
    IN  CASE k % 4 = 0 -> floatOfInt(1)
          [] k % 4 = 2 -> floatOfInt(-1)
          [] IAbs(k) % 4 = 1 -> floatQuarters(IAbs(k))
          [] IAbs(k) % 4 = 3 -> floatQuarters(-IAbs(k))

floatSin(angle) ==
    LET k == angle \div 90
    IN  CASE k % 4 = 1 -> floatOfInt(1)
          [] k % 4 = 3 -> floatOfInt(-1)
          [] IAbs(k) % 4 = 2 -> floatQuarters(k)
          [] IAbs(k) % 4 = 0 -> floatQuarters(-k)

\* sc8pr.geom.transform2d in floats
floatTransformed(x, y, c, sn, shift) ==
    <<floatAdd(floatSub(floatMul(c, x), floatMul(sn, y)), shift[1]),
      floatAdd(floatAdd(floatMul(sn, x), floatMul(c, y)), shift[2])>>

floatTransform2d(pt, preShift, angle, shift) ==
    TheOne({floatTransformed(x, y, floatCos(angle), floatSin(angle), shift) :
            x \in {floatAdd(pt[1], preShift[1])},
            y \in {floatAdd(pt[2], preShift[2])}})

\* Polygon.rotate in floats
floatRotate(self, angle) ==
    [vertices |-> [k \in 1 .. Len(self.held.vertices) |->
                      floatTransform2d(self.held.vertices[k],
                          <<floatNeg(self.held.pos[1]), floatNeg(self.held.pos[2])>>,
                          angle, self.held.pos)],
     pos |-> self.held.pos]

\* a rotate that does not hand the anchor to the new polygon
rotateUnanchored(self, angle) ==
    LET shift2 == self.pos
        shift1 == <<Neg(shift2[1]), Neg(shift2[2])>>
        pts == [k \in 1 .. Len(self.vertices) |->
                   transform2d(self.vertices[k], shift1, angle, shift2)]
        done == PolygonInit(self, pts, None, floatRotate(self, angle))
    IN  [done EXCEPT !.angle = self.angle + angle]

\* Polygon.rotate
rotate(self, angle) ==
    LET shift2 == self.pos
        shift1 == <<Neg(shift2[1]), Neg(shift2[2])>>
        pts == [k \in 1 .. Len(self.vertices) |->
                   transform2d(self.vertices[k], shift1, angle, shift2)]
        done == PolygonInit(self, pts, [kind |-> "tuple", v |-> self.pos],
                            floatRotate(self, angle))
    IN  [done EXCEPT !.angle = self.angle + angle]

\* Polygon.resize divides by the width and the height of the bounding rectangle
resizeOk(self) == size(self)[1] # 0 /\ size(self)[2] # 0

\* Polygon.resize: the factors f
resizeFactors(self, sz) ==
    <<Mk(sz[1], size(self)[1]), Mk(sz[2], size(self)[2])>>

\* Polygon.resize in floats
floatResize(self, sz) ==
    TheOne({[vertices |-> [k \in 1 .. Len(self.held.vertices) |->
                              <<floatMul(fx, self.held.vertices[k][1]),
                                floatMul(fy, self.held.vertices[k][2])>>],
             pos |-> <<floatMul(fx, self.held.pos[1]), floatMul(fy, self.held.pos[2])>>] :
            fx \in {floatDiv(floatOfInt(sz[1]), floatOfInt(size(self)[1]))},
            fy \in {floatDiv(floatOfInt(sz[2]), floatOfInt(size(self)[2]))}})

\* Polygon.resize: the polygon after the call
resize(self, sz) ==
    LET f   == resizeFactors(self, sz)
        pts == [k \in 1 .. Len(self.vertices) |->
                   <<Mul(f[1], self.vertices[k][1]), Mul(f[2], self.vertices[k][2])>>]
    IN  PolygonInit(self, pts,
            [kind |-> "tuple", v |-> <<Mul(f[1], self.pos[1]), Mul(f[2], self.pos[2])>>],
            floatResize(self, sz))

\* Polygon._segments in floats: a Line per edge, from the vertices the polygon holds
floatSegments(self) ==
    LET pts == self.held.vertices
        n   == Len(pts)
    IN  [i \in 1 .. n |-> floatLineInit(IF i = 1 THEN pts[n] ELSE pts[i - 1], pts[i])]

\* Polygon.containsPoint: the point (x + 2 * self.weight, y + random()) that the line l
\* from pos ends at, with jitter the float that random() returns
rayEnd(self, jitter) ==
    LET br == bottomright(self)
    IN  <<floatOfInt(br[1] + 2 * self.weight), floatAdd(floatOfInt(br[2]), jitter)>>

\* Polygon.containsPoint: the line l
ray(self, pos, jitter) == floatLineInit(floatPair(pos), rayEnd(self, jitter))

\* Polygon.containsPoint(pos), in floats
containsPoint(self, pos, jitter) ==
    TheOne({Cardinality({i \in 1 .. Len(segs) : floatIntersects(segs[i], l)}) % 2 = 1 :
            l \in {ray(self, pos, jitter)}, segs \in {floatSegments(self)}})

-----------------------------------------------------------------------------
(* PVector (sc8pr/plot/shape.py): a pygame Vector2, the floats x and y, with a tail *)

ValueError == [kind |-> "ValueError"]

\* PVector(xy=(x, y)): the tail is the class attribute (0, 0)
PVectorXY(x, y) == [x |-> x, y |-> y, tail |-> <<floatZero, floatZero>>]

\* Vector2.from_polar((r, t)), t in degrees, a whole number of quarter turns:
\* x = r * cos(t), y = r * sin(t)
from_polar(self, r, t) ==
    [self EXCEPT !.x = floatMul(r, floatCos(t)), !.y = floatMul(r, floatSin(t))]

\* PVector(mag, theta): "if mag < 0: mag = -mag; theta += 180"
PVectorPolar(mag, theta) ==
    IF mag.neg THEN from_polar(PVectorXY(floatZero, floatZero), floatNeg(mag), theta + 180)
    ELSE from_polar(PVectorXY(floatZero, floatZero), mag, theta)

\* the tip property of PVector
tip(self) == <<floatAdd(self.tail[1], self.x), floatAdd(self.tail[2], self.y)>>

\* the tip setter of PVector
setTip(self, xy) ==
    [self EXCEPT !.tail = <<floatSub(xy[1], self.x), floatSub(xy[2], self.y)>>]

\* the csPos property of PVector: the midpoint of tail and tip
csPos(self) ==
    <<floatAdd(self.tail[1], floatDiv(self.x, floatOfInt(2))),
      floatAdd(self.tail[2], floatDiv(self.y, floatOfInt(2)))>>

\* the csPos setter of PVector: the tail goes where the midpoint becomes xy
setCsPos(self, xy) ==
    [self EXCEPT !.tail = <<floatSub(xy[1], floatDiv(self.x, floatOfInt(2))),
                            floatSub(xy[2], floatDiv(self.y, floatOfInt(2)))>>]

\* Vector2.length(): the square root of x*x + y*y
vectorLength(self) ==
    floatSqrt(floatAdd(floatMul(self.x, self.x), floatMul(self.y, self.y)))

\* Vector2.epsilon, the float 1e-6, below which a length counts as zero
epsilon == [neg |-> FALSE, m |-> <<28045, 16747, 7134, 134>>, e |-> -72]

\* Vector2.scale_to_length(r) of a vector of length l: ValueError when l is below
\* epsilon ("Cannot scale a vector with zero length"), else each component times r / l
scaledFrom(self, r, l) ==
    IF floatLt(l, epsilon) THEN ValueError
    ELSE TheOne({[self EXCEPT !.x = floatMul(self.x, f), !.y = floatMul(self.y, f)] :
                 f \in {floatDiv(r, l)}})

scale_to_length(self, r) == TheOne({scaledFrom(self, r, l) : l \in {vectorLength(self)}})

\* the mag setter of PVector: the vector after it, or ValueError
setMag(self, r) == scale_to_length(self, r)

\* the theta setter of PVector, "self.from_polar((self.length(), t))"
setTheta(self, t) == from_polar(self, vectorLength(self), t)

\* Vector2.normalize_ip(): ValueError when the length l is zero, else each component
\* divided by l
normalizedFrom(self, l) ==
    IF l = floatZero THEN ValueError
    ELSE [self EXCEPT !.x = floatDiv(self.x, l), !.y = floatDiv(self.y, l)]

normalize_ip(self) == TheOne({normalizedFrom(self, l) : l \in {vectorLength(self)}})

\* Vector2.rotate_ip(angle), angle a whole number of quarter turns: pygame swaps and
\* negates the components
rotate_ip(self, angle) ==
    CASE angle % 360 = 0 -> self
      [] angle % 360 = 90 -> [self EXCEPT !.x = floatNeg(self.y), !.y = self.x]
      [] angle % 360 = 180 -> [self EXCEPT !.x = floatNeg(self.x), !.y = floatNeg(self.y)]
      [] angle % 360 = 270 -> [self EXCEPT !.x = self.y, !.y = floatNeg(self.x)]

\* PVector.rotate(angle, xy); xy is None or [kind |-> "tuple", v |-> <<x, y>>], floats
rotateVector(self, angle, xy) ==
    LET pivot == IF xy = None THEN csPos(self) ELSE xy.v
        moved == [self EXCEPT !.tail =
                     floatTransform2d(self.tail,
                         <<floatNeg(pivot[1]), floatNeg(pivot[2])>>, angle, pivot)]
    IN  rotate_ip(moved, angle)

\* PVector.proj(u): the vector that the product is taken with.  For a number u, an
\* angle, it is PVector(1, u); for a PVector u it is u itself, which normalize_ip has
\* changed in place (ValueError when its length is zero)
projUnit(u) ==
    IF u.kind = "number" THEN PVectorPolar(floatOfInt(1), u.v) ELSE normalize_ip(u.v)

\* "u * self", the scalar product, and "u * (u * self)"
projOnto(self, w) ==
    TheOne({PVectorXY(floatMul(w.x, dot), floatMul(w.y, dot)) :
            dot \in {floatAdd(floatMul(w.x, self.x), floatMul(w.y, self.y))}})

\* PVector.proj(u): the argument u after the call
projArgument(u) ==
    IF u.kind = "number" \/ normalize_ip(u.v) = ValueError THEN u
    ELSE [kind |-> "PVector", v |-> normalize_ip(u.v)]

\* PVector.proj(u), u being [kind |-> "number", v |-> an angle] or
\* [kind |-> "PVector", v |-> a vector]: the new vector, or ValueError
proj(self, u) ==
    TheOne({IF w = ValueError THEN ValueError
            ELSE [projOnto(self, w) EXCEPT !.tail = self.tail] : w \in {projUnit(u)}})

Degrees(a) == [kind |-> "number", v |-> a]

\* components whose y starts, rather than ends, at the tip of the vector
componentsTailAtTip(self) ==
    LET x == proj(self, Degrees(0))
        y == [proj(self, Degrees(90)) EXCEPT !.tail = tip(self)]
    IN  <<x, y>>

\* PVector.components
components(self) ==
    LET x == proj(self, Degrees(0))
        y == setTip(proj(self, Degrees(90)), tip(self))
    IN  <<x, y>>

RECURSIVE sumUpTo(_, _)
\* PVector.sum: s after the loop has added args[1 .. k]
sumUpTo(args, k) ==
    IF k = 0 THEN PVectorXY(floatZero, floatZero)
    ELSE LET t == sumUpTo(args, k - 1)
         IN  PVectorXY(floatAdd(t.x, args[k].x), floatAdd(t.y, args[k].y))

\* PVector.sum
sum(args) == sumUpTo(args, Len(args))

\* -1 * v: PVector.__rmul__ makes a new PVector
negated(v) == PVectorXY(floatMul(v.x, floatOfInt(-1)), floatMul(v.y, floatOfInt(-1)))

RECURSIVE loopAtTails(_, _, _)
loopAtTails(h, vecs, k) ==
    IF k < 2 THEN h
    ELSE LET g == loopAtTails(h, vecs, k - 1)
         IN  [g EXCEPT ![vecs[k]].tail = g[vecs[k - 1]].tail]

\* a tipToTail that moves each tail to the previous vector's tail
tipToTailAtTails(h, vecs) ==
    IF Len(vecs) > 1 THEN loopAtTails(h, vecs, Len(vecs)) ELSE h

RECURSIVE tipToTailLoop(_, _, _)
\* the loop of PVector.tipToTail: the objects once it has handled vecs[2 .. k]
tipToTailLoop(h, vecs, k) ==
    IF k < 2 THEN h
    ELSE LET g == tipToTailLoop(h, vecs, k - 1)
         IN  [g EXCEPT ![vecs[k]].tail = tip(g[vecs[k - 1]])]

\* PVector.tipToTail(vecs): vecs is a list of objects, given by their indices in h;
\* the objects after the call
tipToTail(h, vecs) ==
    IF Len(vecs) > 1 THEN tipToTailLoop(h, vecs, Len(vecs)) ELSE h

-----------------------------------------------------------------------------
(* PVector.parse: strings are sequences of characters *)

(* The decimal digits: "\d" in a str pattern matches every character of the Unicode
   category Nd, and float() reads each of them as the digit it stands for.  Each row is
   the ten digits of one script, 0 to 9.  The rows are those that a string can hold
   here; the rows that cannot be written start, in hexadecimal, at
   0660, 0966, 0A66, 0B66, 0C66, 0D66, 0E50, 0F20, 1040, 1810, 1946, 1B50, 1C40, 1C50,
   A620, A900, AA50, FF10, 104A0, 10D30, 11066, 110F0, 11136, 111D0, 112F0, 11450,
   114D0, 11650, 116C0, 11730, 118E0, 11950, 11C50, 11D50, 11DA0, 16A60, 16AC0, 16B50,
   1D7CE, 1D7D8, 1D7E2, 1D7EC, 1D7F6, 1E140, 1E2F0, 1E950, 1FBF0 *)
DigitRows ==
    <<
      <<"0", "1", "2", "3", "4", "5", "6", "7", "8", "9">>,
      <<"۰", "۱", "۲", "۳", "۴", "۵", "۶", "۷", "۸", "۹">>,
      <<"߀", "߁", "߂", "߃", "߄", "߅", "߆", "߇", "߈", "߉">>,
      <<"০", "১", "২", "৩", "৪", "৫", "৬", "৭", "৮", "৯">>,
      <<"૦", "૧", "૨", "૩", "૪", "૫", "૬", "૭", "૮", "૯">>,
      <<"௦", "௧", "௨", "௩", "௪", "௫", "௬", "௭", "௮", "௯">>,
      <<"೦", "೧", "೨", "೩", "೪", "೫", "೬", "೭", "೮", "೯">>,
      <<"෦", "෧", "෨", "෩", "෪", "෫", "෬", "෭", "෮", "෯">>,
      <<"໐", "໑", "໒", "໓", "໔", "໕", "໖", "໗", "໘", "໙">>,
      <<"႐", "႑", "႒", "႓", "႔", "႕", "႖", "႗", "႘", "႙">>,
      <<"០", "១", "២", "៣", "៤", "៥", "៦", "៧", "៨", "៩">>,
      <<"᧐", "᧑", "᧒", "᧓", "᧔", "᧕", "᧖", "᧗", "᧘", "᧙">>,
      <<"᪀", "᪁", "᪂", "᪃", "᪄", "᪅", "᪆", "᪇", "᪈", "᪉">>,
      <<"᪐", "᪑", "᪒", "᪓", "᪔", "᪕", "᪖", "᪗", "᪘", "᪙">>,
      <<"᮰", "᮱", "᮲", "᮳", "᮴", "᮵", "᮶", "᮷", "᮸", "᮹">>,
      <<"꣐", "꣑", "꣒", "꣓", "꣔", "꣕", "꣖", "꣗", "꣘", "꣙">>,
      <<"꧐", "꧑", "꧒", "꧓", "꧔", "꧕", "꧖", "꧗", "꧘", "꧙">>,
      <<"꧰", "꧱", "꧲", "꧳", "꧴", "꧵", "꧶", "꧷", "꧸", "꧹">>,
      <<"꯰", "꯱", "꯲", "꯳", "꯴", "꯵", "꯶", "꯷", "꯸", "꯹">>
    >>

Digits == UNION {{DigitRows[r][d] : d \in 1 .. 10} : r \in DOMAIN DigitRows}
DigitValue(c) == CHOOSE d \in 0 .. 9 : \E r \in DOMAIN DigitRows : DigitRows[r][d + 1] = c

\* the character classes of _sign, "[-|\+]", and of the exponent, "[e|E]"
SignChars == {"-", "|", "+"}
ExponentChars == {"e", "|", "E"}

At(str, i) == IF i >= 1 /\ i <= Len(str) THEN str[i] ELSE ""

\* the characters that "\s" matches in a str pattern, as far as a string can hold
\* them here: space, tab, newline, carriage return, form feed, and then, written as
\* the characters themselves, vertical tab (0B), the separators 1C, 1D, 1E and 1F,
\* next line (85), no-break space (A0) and the ogham space mark (1680).  The spaces
\* from 2000 on (2000 to 200A, 2028, 2029, 202F, 205F, 3000) cannot be written in a
\* string of this module.
Whitespace ==
    {" ", "\t", "\n", "\r", "\f",
     "", "", "", "", "", "", " ", " "}

\* re.subn("\s*", "", string)[0]: the string without its whitespace
withoutSpace(str) == SelectSeq(str, LAMBDA c : c \notin Whitespace)

RECURSIVE DigitsEnd(_, _)
\* the index after the digits that start at i
DigitsEnd(str, i) == IF At(str, i) \in Digits THEN DigitsEnd(str, i + 1) ELSE i

\* _num matched at i: the index after the match, or 0 when there is none
NumEnd(str, i) ==
    LET i1 == IF At(str, i) \in SignChars THEN i + 1 ELSE i
        i2 == DigitsEnd(str, i1)
        i3 == IF At(str, i2) = "." THEN i2 + 1 ELSE i2
        i4 == DigitsEnd(str, i3)
        j  == IF At(str, i4 + 1) \in SignChars THEN i4 + 2 ELSE i4 + 1
    IN  IF i2 = i1 THEN 0
        ELSE IF At(str, i4) \in ExponentChars THEN DigitsEnd(str, j)
        ELSE i4

\* _re[form].match(expr): the index after the match and the index of the separator,
\* or <<0, 0>> when there is no match
reMatch(expr, form) ==
    IF form = 0
    THEN LET e1 == NumEnd(expr, 2)
             e2 == IF e1 > 0 /\ At(expr, e1) = "," THEN NumEnd(expr, e1 + 1) ELSE 0
         IN  IF At(expr, 1) = "(" /\ e2 > 0 /\ At(expr, e2) = ")"
             THEN <<e2 + 1, e1>> ELSE <<0, 0>>
    ELSE LET e1 == NumEnd(expr, 1)
             e2 == IF e1 > 0 /\ At(expr, e1) = "@" THEN NumEnd(expr, e1 + 1) ELSE 0
         IN  IF e2 > 0 THEN <<e2, e1>> ELSE <<0, 0>>

RECURSIVE DigitsNumber(_, _, _)
\* the number written by the digits str[i .. j-1]
DigitsNumber(str, i, j) ==
    IF j <= i THEN 0 ELSE 10 * DigitsNumber(str, i, j - 1) + DigitValue(str[j - 1])

RECURSIVE TenTo(_)
TenTo(k) == IF k = 0 THEN 1 ELSE 10 * TenTo(k - 1)

\* float(text): a number, or ValueError
float(text) ==
    LET i1 == IF At(text, 1) \in {"-", "+"} THEN 2 ELSE 1
        i2 == DigitsEnd(text, i1)
        i3 == IF At(text, i2) = "." THEN i2 + 1 ELSE i2
        i4 == DigitsEnd(text, i3)
        j  == IF At(text, i4 + 1) \in {"-", "+"} THEN i4 + 2 ELSE i4 + 1
        j2 == DigitsEnd(text, j)
        hasExp == At(text, i4) \in {"e", "E"}
        mant == Add(Int2Num(DigitsNumber(text, i1, i2)),
                    Mk(DigitsNumber(text, i3, i4), TenTo(i4 - i3)))
        ex == DigitsNumber(text, j, j2)
        scaled == IF ~hasExp THEN mant
                  ELSE IF At(text, i4 + 1) = "-" THEN Div(mant, Int2Num(TenTo(ex)))
                  ELSE Mul(mant, Int2Num(TenTo(ex)))
        end == IF hasExp THEN j2 ELSE i4
    IN  IF i2 = i1 /\ i4 = i3 THEN ValueError
        ELSE IF hasExp /\ j2 = j THEN ValueError
        ELSE IF end # Len(text) + 1 THEN ValueError
        ELSE IF At(text, 1) = "-" THEN Neg(scaled) ELSE scaled

\* an angle in degrees that is a whole number of quarter turns, as an integer, with
\* the half turn that a negative magnitude adds no more than 8 of them
IsRightAngle(a) == a.d = 1 /\ a.r = 1 /\ a.n % 90 = 0 /\ a.n >= -720 /\ a.n <= 540

\* a PVector whose angle is not one of these: its components are not modelled
Inexact == [kind |-> "inexact"]

\* _parse: the vector of a match of length n whose two numbers are a and b
parsedVector(form, n, a, b) ==
    IF a = ValueError \/ b = ValueError THEN ValueError
    ELSE IF form = 0 THEN [kind |-> "pair", n |-> n, v |-> PVectorXY(floatOf(a), floatOf(b))]
    ELSE IF ~IsRightAngle(b) THEN [kind |-> "pair", n |-> n, v |-> Inexact]
    ELSE [kind |-> "pair", n |-> n, v |-> PVectorPolar(floatOf(a), b.n)]

\* _parse, given the match m
parsedMatch(expr, form, m) ==
    IF m[1] = 0 THEN [kind |-> "pair", n |-> 0, v |-> None]
    ELSE TheOne({parsedVector(form, m[1] - 1, a, b) :
            a \in {float(SubSeq(expr, IF form = 0 THEN 2 ELSE 1, m[2] - 1))},
            b \in {float(SubSeq(expr, m[2] + 1, IF form = 0 THEN m[1] - 2 ELSE m[1] - 1))}})

\* _parse(expr, form): n, the length of the match, and v, the vector; n = 0 and
\* v = None when there is no match; ValueError when float() raises
parseOne(expr, form) ==
    TheOne({parsedMatch(expr, form, m) : m \in {reMatch(expr, form)}})

\* PVector.parse: "n, v = _parse(expr, 0); if not n: n, v = _parse(expr, 1)"
parseEither(expr) ==
    TheOne({IF c.kind = "pair" /\ c.n = 0 THEN parseOne(expr, 1) ELSE c :
            c \in {parseOne(expr, 0)}})

RECURSIVE parseLoop(_, _)
\* PVector.parse: one pass of the while loop, t being what _parse found in rest
parseStep(rest, neg, vecs, t) ==
    IF t.kind # "pair" THEN t
    ELSE IF t.n # 0
    THEN parseLoop(SubSeq(rest, t.n + 1, Len(rest)),
                   Append(vecs, IF neg /\ t.v # Inexact THEN negated(t.v) ELSE t.v))
    ELSE IF Len(rest) # 0 THEN ValueError
    ELSE [kind |-> "list", v |-> vecs]

\* the while loop of PVector.parse and the test that follows it: the list of the
\* vectors, each a new object, or ValueError
parseLoop(expr, vecs) ==
    IF Len(expr) = 0 THEN [kind |-> "list", v |-> vecs]
    ELSE TheOne({parseStep(rest, expr[1] = "-", vs, t) :
            rest \in {IF expr[1] \in {"+", "-"} THEN SubSeq(expr, 2, Len(expr)) ELSE expr},
            vs \in {vecs},
            t \in {parseEither(IF expr[1] \in {"+", "-"}
                               THEN SubSeq(expr, 2, Len(expr)) ELSE expr)}})

\* PVector.parse, "return PVector.tipToTail(vecs)"
parsed(r) ==
    IF r.kind # "list" THEN r
    ELSE IF \E k \in 1 .. Len(r.v) : r.v[k] = Inexact THEN Inexact
    ELSE [kind |-> "list", v |-> tipToTail(r.v, [k \in 1 .. Len(r.v) |-> k])]

\* PVector.parse(string): ValueError, or the new objects, laid out tip to tail, or
\* Inexact when one of the objects is
parse(string) == TheOne({parsed(r) : r \in {parseLoop(withoutSpace(string), <<>>)}})

-----------------------------------------------------------------------------
(* The Line scene: two lines are constructed, then intersect or closest runs *)

\* coordinates of the points given to the constructors
MaxCoord == 2

Coords == 0 .. MaxCoord
GridPoints == {<<Int2Num(x), Int2Num(y)>> : x \in Coords, y \in Coords}

\* the points given to closest: the grid and a margin around it
TestPoints ==
    {<<Int2Num(x), Int2Num(y)>> : x \in -1 .. MaxCoord + 1, y \in -1 .. MaxCoord + 1}

\* the vector argument: a direction (dx, dy) or a slope number
DirVectors ==
    {[kind |-> "tuple", v |-> <<Int2Num(x), Int2Num(y)>>] :
        x \in {-1, 0, 1, 2}, y \in {-1, 0, 1}}
    \ {[kind |-> "tuple", v |-> <<Zero, Zero>>]}
SlopeNumbers == {[kind |-> "number", v |-> Int2Num(m)] : m \in {0, 1}}

LineArgs ==
    {[start |-> s, point |-> [kind |-> "tuple", v |-> p], vector |-> None] :
        s \in GridPoints, p \in GridPoints}
    \cup {[start |-> s, point |-> None, vector |-> v] :
            s \in GridPoints, v \in DirVectors \cup SlopeNumbers}

\* the size argument of Line.resize
LineSizes == {<<Int2Num(3), Int2Num(4)>>, <<One, One>>}

ArgsOk(a) == LineInitOk(a.start, a.point, a.vector)
NewLine(a) == LineInit(a.start, a.point, a.vector)

NoLine == [kind |-> "none"]
NoPolygon == [kind |-> "none"]
NoVector == [kind |-> "none"]

InitLine ==
    /\ scene = "line"
    /\ argsA = NoLine
    /\ lineA = NoLine
    /\ poly = NoPolygon
    /\ vec = NoVector
    /\ heap = <<>>
    /\ geomOps = 0
    /\ trail = <<>>
    /\ target = NoLine
    /\ op = "init"
    /\ result = None

\* self = Line(start, point, vector)
Construct ==
    /\ scene = "line"
    /\ op = "init"
    /\ \E a \in LineArgs :
        /\ ArgsOk(a)
        /\ argsA' = a
        /\ lineA' = NewLine(a)
    /\ op' = "line"
    /\ UNCHANGED <<scene, poly, vec, heap, geomOps, trail, target, result>>

\* self.resize(size): the line is constructed again, from its start and a vector
ResizeLine ==
    /\ scene = "line"
    /\ op = "line"
    /\ \E sz \in LineSizes :
        /\ argsA' = resizeArgs(lineA, sz)
        /\ lineA' = resizeLine(lineA, sz)
    /\ op' = "resize"
    /\ UNCHANGED <<scene, poly, vec, heap, geomOps, trail, target, result>>

\* self.intersect(Line(start, point, vector))
Intersect ==
    /\ scene = "line"
    /\ op \in {"line", "resize"}
    /\ \E b \in LineArgs :
        /\ ArgsOk(b)
        /\ \E other \in {NewLine(b)} :
            /\ target' = [kind |-> "line", args |-> b, line |-> other]
            /\ result' = intersect(lineA, other)
    /\ op' = "intersect"
    /\ UNCHANGED <<scene, argsA, lineA, poly, vec, heap, geomOps, trail>>

\* self.closest(point)
Closest ==
    /\ scene = "line"
    /\ op \in {"line", "resize"}
    /\ \E p \in TestPoints :
        /\ target' = [kind |-> "point", pt |-> p]
        /\ result' = PointResult(closest(lineA, p))
    /\ op' = "closest"
    /\ UNCHANGED <<scene, argsA, lineA, poly, vec, heap, geomOps, trail>>

NextLine == Construct \/ ResizeLine \/ Intersect \/ Closest

SpecLine == InitLine /\ [][NextLine]_vars

\* the lines alone: constructed, resized and intersected
NextCrossing == Construct \/ ResizeLine \/ Intersect

SpecCrossing == InitLine /\ [][NextCrossing]_vars

-----------------------------------------------------------------------------
(* The Polygon scenes: a polygon is constructed, then rotated, resized and moved
   ("polygon"), and also restyled while its image and segments are read ("style") *)

\* how many rotate, resize and pos operations a polygon goes through
MaxGeomOps == 3

\* the same, where the style changes and the cached values are read as well
MaxStyleGeomOps == 1

\* the same, for a polygon and a vector side by side: one more, so that each of the
\* two can be turned and turned back
MaxPairOps == MaxGeomOps + 1

GeomBudget ==
    CASE scene = "style" -> MaxStyleGeomOps
      [] scene = "pair" -> MaxPairOps
      [] OTHER -> MaxGeomOps

Pt(x, y) == <<Int2Num(x), Int2Num(y)>>

\* the trail with one more operation, cut to the last two
Extend(t, name, arg, before) ==
    LET e == [op |-> name, arg |-> arg, before |-> before]
    IN  IF Len(t) < 2 THEN Append(t, e) ELSE <<t[2], e>>

\* the trail after an operation on the polygon; the style scene keeps none
Remember(name, arg) ==
    CASE scene \in {"polygon", "resize"} -> Extend(trail, name, arg, poly)
      [] scene = "pair" -> [trail EXCEPT !.poly = Extend(@, name, arg, poly)]
      [] OTHER -> trail

\* the vertex lists given to Polygon(): a unit square, a rectangle, a triangle
VertexLists ==
    {<<Pt(0, 0), Pt(1, 0), Pt(1, 1), Pt(0, 1)>>,
     <<Pt(0, 0), Pt(4, 0), Pt(4, 2), Pt(0, 2)>>,
     <<Pt(1, 1), Pt(5, 1), Pt(1, 3)>>}

\* the pos argument of Polygon(): the default, a vertex index, a point
PosArgs == {None, [kind |-> "int", v |-> 0], [kind |-> "tuple", v |-> Pt(1, 1)]}

RotateAngles == {90, 180, -90}
PairAngles == {90, -90}
ResizeSizes == {<<2, 2>>, <<4, 2>>}
NewPositions == {Pt(0, 0), Pt(3, 2)}
StyleValues ==
    {<<"fill", ColourArg("")>>, <<"fill", ColourArg("red")>>,
     <<"stroke", ColourArg("blue")>>,
     <<"weight", 1>>, <<"weight", 2>>}

\* Polygon(pts, pos)
PolygonConstructed ==
    /\ argsA = NoLine
    /\ lineA = NoLine
    /\ \E pts \in VertexLists, pos \in PosArgs :
          poly = Polygon(pts, pos)
    /\ vec = NoVector
    /\ heap = <<>>
    /\ geomOps = 0
    /\ trail = <<>>
    /\ target = NoLine
    /\ op = "init"
    /\ result = None

\* poly.rotate(angle)
Rotate ==
    /\ scene \in {"polygon", "style", "resize", "pair"}
    /\ geomOps < GeomBudget
    /\ \E a \in IF scene = "pair" THEN PairAngles ELSE RotateAngles :
        /\ poly' = rotate(poly, a)
        /\ target' = [kind |-> "angle", v |-> a]
        /\ trail' = Remember("rotate", a)
    /\ geomOps' = geomOps + 1
    /\ op' = "rotate"
    /\ result' = None
    /\ UNCHANGED <<scene, argsA, lineA, vec, heap>>

\* poly.resize(size)
Resize ==
    /\ scene \in {"polygon", "style", "resize"}
    /\ geomOps < GeomBudget
    /\ resizeOk(poly)
    /\ \E sz \in ResizeSizes :
        /\ poly' = resize(poly, sz)
        /\ target' = [kind |-> "size", v |-> sz]
        /\ result' = [kind |-> "factors", v |-> resizeFactors(poly, sz)]
        /\ trail' = Remember("resize", 0)
    /\ geomOps' = geomOps + 1
    /\ op' = "resize"
    /\ UNCHANGED <<scene, argsA, lineA, vec, heap>>

\* poly.pos = pos
SetPos ==
    /\ scene \in {"polygon", "style", "resize"}
    /\ geomOps < GeomBudget
    /\ \E p \in NewPositions :
        /\ poly' = setPos(poly, p)
        /\ target' = [kind |-> "point", pt |-> p]
        /\ trail' = Remember("pos", 0)
    /\ geomOps' = geomOps + 1
    /\ op' = "pos"
    /\ result' = None
    /\ UNCHANGED <<scene, argsA, lineA, vec, heap>>

\* poly.config(fill=c), poly.config(stroke=c), poly.config(weight=w), which returns
\* the polygon
Config ==
    /\ scene = "style"
    /\ \E kv \in StyleValues :
        /\ poly' = config(poly, kv[1], kv[2])
    /\ op' = "config"
    /\ result' = poly'
    /\ UNCHANGED <<scene, argsA, lineA, vec, heap, geomOps, trail, target>>

\* poly.fill = c, poly.stroke = c, poly.weight = w
SetAttribute ==
    /\ scene = "style"
    /\ \E kv \in StyleValues :
        /\ poly' = setAttribute(poly, kv[1], kv[2])
    /\ op' = "setattr"
    /\ result' = None
    /\ UNCHANGED <<scene, argsA, lineA, vec, heap, geomOps, trail, target>>

\* poly.dumpCache()
DumpCache ==
    /\ scene = "style"
    /\ poly' = dumpCache(poly)
    /\ op' = "dumpCache"
    /\ result' = None
    /\ UNCHANGED <<scene, argsA, lineA, vec, heap, geomOps, trail, target>>

\* poly.image
ReadImage ==
    /\ scene = "style"
    /\ poly' = image(poly)
    /\ op' = "image"
    /\ result' = image(poly).srf
    /\ UNCHANGED <<scene, argsA, lineA, vec, heap, geomOps, trail, target>>

\* poly.segments
ReadSegments ==
    /\ scene = "style"
    /\ segmentsOk(poly)
    /\ poly' = segments(poly)
    /\ op' = "segments"
    /\ result' = segments(poly).segCache
    /\ UNCHANGED <<scene, argsA, lineA, vec, heap, geomOps, trail, target>>

InitPolygon == scene = "polygon" /\ PolygonConstructed

NextPolygon == Rotate \/ Resize \/ SetPos

SpecPolygon == InitPolygon /\ [][NextPolygon]_vars

InitStyle == scene = "style" /\ PolygonConstructed

NextStyle ==
    Rotate \/ Resize \/ SetPos \/ Config \/ SetAttribute \/ DumpCache \/ ReadImage
        \/ ReadSegments

SpecStyle == InitStyle /\ [][NextStyle]_vars

-----------------------------------------------------------------------------
(* The PVector scene: a vector is constructed and placed, then rotated, moved and
   given another magnitude or angle, and its projections and components are taken
   ("vector"); and a polygon and a vector side by side, each rotated ("pair") *)

VectorValues == {<<3, 4>>, <<-2, 1>>}
Pivots == {None, [kind |-> "tuple", v |-> floatPair(Pt(2, 1))]}

\* the rotations of a vector: a quarter turn either way about each pivot, and a
\* half turn about the middle
VectorRotations ==
    {<<a, xy>> : a \in {90, -90}, xy \in Pivots} \cup {<<180, None>>, <<-180, None>>}

\* the rotations of the vector of a pair
PairRotations == {<<a, xy>> : a \in PairAngles, xy \in Pivots \ {None}}

InitVector ==
    /\ scene = "vector"
    /\ argsA = NoLine
    /\ lineA = NoLine
    /\ poly = NoPolygon
    /\ \E xy \in VectorValues : vec = PVectorXY(floatOfInt(xy[1]), floatOfInt(xy[2]))
    /\ heap = <<>>
    /\ geomOps = 0
    /\ trail = <<>>
    /\ target = NoLine
    /\ op = "init"
    /\ result = None

\* vec.rotate(angle, xy)
RotateVector ==
    /\ scene \in {"vector", "pair"}
    /\ geomOps < GeomBudget
    /\ \E r \in IF scene = "pair" THEN PairRotations ELSE VectorRotations :
        /\ vec' = rotateVector(vec, r[1], r[2])
        /\ target' = [kind |-> "rotation", v |-> r[1], xy |-> r[2]]
        /\ \E e \in {[angle |-> r[1], xy |-> r[2]]} :
              trail' = IF scene = "pair"
                       THEN [trail EXCEPT !.vec = Extend(@, "rotate", e, vec)]
                       ELSE Extend(trail, "rotate", e, vec)
    /\ geomOps' = geomOps + 1
    /\ op' = "rotate"
    /\ result' = None
    /\ UNCHANGED <<scene, argsA, lineA, poly, heap>>

\* vec.components(): target keeps the vector as it was before the call
Components ==
    /\ scene = "vector"
    /\ geomOps < MaxGeomOps
    /\ result' = [kind |-> "list", v |-> components(vec)]
    /\ target' = [kind |-> "PVector", v |-> vec]
    /\ vec' = vec
    /\ geomOps' = geomOps + 1
    /\ op' = "components"
    /\ UNCHANGED <<scene, argsA, lineA, poly, heap, trail>>

\* the arguments of proj: a vector and a vector of length zero (components() takes
\* the projections onto angles)
ProjArguments ==
    {[kind |-> "PVector", v |-> PVectorXY(floatOfInt(1), floatOfInt(1))],
     [kind |-> "PVector", v |-> PVectorXY(floatZero, floatZero)]}

\* vec.proj(u): target keeps the argument as it is after the call
Proj ==
    /\ scene = "vector"
    /\ geomOps < MaxGeomOps
    /\ \E u \in ProjArguments :
        /\ \E p \in {proj(vec, u)} :
              result' = IF p = ValueError THEN p ELSE [kind |-> "PVector", v |-> p]
        /\ target' = [kind |-> "argument", before |-> u, v |-> projArgument(u)]
    /\ geomOps' = geomOps + 1
    /\ op' = "proj"
    /\ UNCHANGED <<scene, argsA, lineA, poly, vec, heap, trail>>

\* the arguments of the setters of PVector
SetterPoints == {floatPair(Pt(1, 2))}
Magnitudes == {floatOfInt(10), floatZero}
Thetas == {0}

\* vec.csPos = xy
SetCsPos ==
    /\ scene = "vector"
    /\ geomOps < MaxGeomOps
    /\ \E xy \in SetterPoints :
        /\ vec' = setCsPos(vec, xy)
        /\ target' = [kind |-> "point", v |-> xy]
        /\ trail' = Extend(trail, "csPos", xy, vec)
    /\ geomOps' = geomOps + 1
    /\ op' = "csPos"
    /\ result' = None
    /\ UNCHANGED <<scene, argsA, lineA, poly, heap>>

\* vec.tip = xy
SetTip ==
    /\ scene = "vector"
    /\ geomOps < MaxGeomOps
    /\ \E xy \in SetterPoints :
        /\ vec' = setTip(vec, xy)
        /\ target' = [kind |-> "point", v |-> xy]
        /\ trail' = Extend(trail, "tip", xy, vec)
    /\ geomOps' = geomOps + 1
    /\ op' = "tip"
    /\ result' = None
    /\ UNCHANGED <<scene, argsA, lineA, poly, heap>>

\* vec.mag = r: scale_to_length raises ValueError for a vector of length zero, which
\* then is as it was
SetMag ==
    /\ scene = "vector"
    /\ geomOps < MaxGeomOps
    /\ \E r \in Magnitudes :
        /\ \E v \in {setMag(vec, r)} :
              /\ vec' = IF v = ValueError THEN vec ELSE v
              /\ result' = IF v = ValueError THEN ValueError ELSE None
        /\ target' = [kind |-> "number", v |-> r]
        /\ trail' = Extend(trail, "mag", r, vec)
    /\ geomOps' = geomOps + 1
    /\ op' = "mag"
    /\ UNCHANGED <<scene, argsA, lineA, poly, heap>>

\* vec.theta = t
SetTheta ==
    /\ scene = "vector"
    /\ geomOps < MaxGeomOps
    /\ \E t \in Thetas :
        /\ vec' = setTheta(vec, t)
        /\ target' = [kind |-> "angle", v |-> t]
        /\ trail' = Extend(trail, "theta", t, vec)
    /\ geomOps' = geomOps + 1
    /\ op' = "theta"
    /\ result' = None
    /\ UNCHANGED <<scene, argsA, lineA, poly, heap>>

NextVector ==
    RotateVector \/ SetCsPos \/ SetTip \/ SetMag \/ SetTheta \/ Components \/ Proj

SpecVector == InitVector /\ [][NextVector]_vars

\* Polygon(pts, 0) and PVector(xy=(-2, 1)) side by side: the trail keeps the last two
\* operations on each
InitPair ==
    /\ scene = "pair"
    /\ argsA = NoLine
    /\ lineA = NoLine
    /\ \E pts \in VertexLists : poly = Polygon(pts, [kind |-> "int", v |-> 0])
    /\ vec = PVectorXY(floatOfInt(-2), floatOfInt(1))
    /\ heap = <<>>
    /\ geomOps = 0
    /\ trail = [poly |-> <<>>, vec |-> <<>>]
    /\ target = NoLine
    /\ op = "init"
    /\ result = None

\* polygons and vectors
InitShapes == InitPolygon \/ InitVector \/ InitPair

NextShapes == NextPolygon \/ NextVector

SpecShapes == InitShapes /\ [][NextShapes]_vars

-----------------------------------------------------------------------------
(* The hit scene: a polygon with a weight, and containsPoint *)

\* random() returns a float in [0, 1).  The values tried for a polygon and a point
\* are the floats nearest to: the steps k / JitterSteps; the values at which the ray
\* passes through a vertex, is parallel to an edge or ends level with a vertex; and
\* the values half way between two of those that follow each other.  The highest
\* float below 1 is tried as well: added to a whole number above 0, it rounds up.
\* Only y + random() enters the ray, a float: about each value at which the ray
\* passes through a vertex, is parallel to an edge or ends level with a vertex, and
\* about 0 and 1, the jitters are tried that end the ray on each of the JitterReach
\* floats above and below.  The values are a sample of what random() returns.
\* For a point on the boundary the rounding of the floats decides whether the ray
\* meets the edge the point is on, and finer steps and the thirds are tried
JitterSteps == 4
JitterGrid == {Mk(k, JitterSteps) : k \in 0 .. JitterSteps - 1}
JitterFine == {Mk(k, 4 * JitterSteps) : k \in 1 .. 4 * JitterSteps - 1} \cup {Mk(1, 3), Mk(2, 3)}

\* (b - a) x (p - a)
Cross(a, b, p) ==
    Sub(Mul(Sub(b[1], a[1]), Sub(p[2], a[2])), Mul(Sub(b[2], a[2]), Sub(p[1], a[1])))

\* p is a point of the edge from a to b
OnEdge(a, b, p) ==
    /\ Cross(a, b, p) = Zero
    /\ Le(NumMin(a[1], b[1]), p[1]) /\ Le(p[1], NumMax(a[1], b[1]))
    /\ Le(NumMin(a[2], b[2]), p[2]) /\ Le(p[2], NumMax(a[2], b[2]))

OnBoundary(self, p) ==
    \E i \in 1 .. Len(self.vertices) :
        OnEdge(self.vertices[i], self.vertices[(i % Len(self.vertices)) + 1], p)

\* the jitter at which the ray from p to (x, y + jitter) has the slope of d
JitterAlong(p, x, y, d) ==
    Sub(Add(p[2], Div(Mul(d[2], Sub(x, p[1])), d[1])), y)

CriticalJitters(self, pos) ==
    LET br  == bottomright(self)
        x   == Int2Num(br[1] + 2 * self.weight)
        y   == Int2Num(br[2])
        pts == self.vertices
        n   == Len(pts)
        through == {JitterAlong(pos, x, y, <<Sub(pts[i][1], pos[1]), Sub(pts[i][2], pos[2])>>) :
                    i \in {k \in 1 .. n : pts[k][1] # pos[1]}}
        along   == {JitterAlong(pos, x, y, <<Sub(pts[i][1], pts[(i % n) + 1][1]),
                                            Sub(pts[i][2], pts[(i % n) + 1][2])>>) :
                    i \in {k \in 1 .. n : pts[k][1] # pts[(k % n) + 1][1]}}
        level   == {Sub(pts[i][2], y) : i \in 1 .. n}
    IN  {j \in through \cup along \cup level : Ge(j, Zero) /\ Lt(j, One)}

\* the values half way between two values of c that follow each other
BetweenOf(c) ==
    {Div(Add(ab[1], ab[2]), Two) :
     ab \in {ab \in c \X c : /\ Lt(ab[1], ab[2])
                              /\ \A m \in c : ~(Lt(ab[1], m) /\ Lt(m, ab[2]))}}

Between(c) == Strict1(BetweenOf, c)

JitterValuesWith(c) == JitterGrid \cup c \cup Between(c \cup {Zero, One})

JitterValues(self, pos) ==
    TheOne({JitterValuesWith(c) : c \in {CriticalJitters(self, pos)}})
        \cup (IF OnBoundary(self, pos) THEN JitterFine ELSE {})

JitterLast == canonical(FALSE, natSub(natShl(natOne, MantissaBits), natOne), -MantissaBits)

\* how many floats either side of a ray's end are tried
JitterReach == 2

\* the float k floats above (below, for k < 0) the float a > 0
floatStepped(a, k) ==
    LET p == natBits(a.m) + a.e - 1
        e == IF a.m = natOne /\ k < 0 THEN p - MantissaBits ELSE p - MantissaBits + 1
    IN  floatAdd(a, canonical(k < 0, natFromInt(IAbs(k)), e))

\* the jitters that end the ray on the floats next to y + c
JittersAbout(y, c) ==
    {j \in {floatSub(floatStepped(floatAdd(y, floatOf(c)), k), y) :
            k \in (-JitterReach .. JitterReach) \ {0}} :
        floatLe(floatZero, j) /\ floatLt(j, floatOfInt(1))}

JittersNear(self, pos) ==
    TheOne({UNION {JittersAbout(y, c) : c \in CriticalJitters(self, pos) \cup {Zero, One}} :
            y \in {floatOfInt(bottomright(self)[2])}})

Jitters(self, pos) ==
    {floatOf(j) : j \in JitterValues(self, pos)} \cup {JitterLast}
        \cup (IF bottomright(self)[2] > 0 THEN JittersNear(self, pos) ELSE {})

\* the points tested: halves, from one below the polygons to beyond them
HitPoints == {<<Mk(x, 2), Mk(y, 2)>> : x, y \in -2 .. 2 * MaxCoord + 4}
Weights == {1, 2}

InitHit ==
    /\ scene = "hit"
    /\ argsA = NoLine
    /\ lineA = NoLine
    /\ \E pts \in VertexLists, w \in Weights :
          poly = config(Polygon(pts, None), "weight", w)
    /\ vec = NoVector
    /\ heap = <<>>
    /\ geomOps = 0
    /\ trail = <<>>
    /\ target = NoLine
    /\ op = "init"
    /\ result = None

\* the ray of containsPoint can be constructed: its ends differ, or else hypot is 0.0
\* and Line.__init__ raises ZeroDivisionError
rayOk(self, pos, jitter) == floatPair(pos) # rayEnd(self, jitter)

\* poly.containsPoint(pos), random() returning jitter; the call changes nothing of
\* the polygon, so the scene makes one call
ContainsPoint ==
    /\ scene = "hit"
    /\ op = "init"
    /\ \E pos \in HitPoints :
         \E jitter \in Jitters(poly, pos) :
            /\ rayOk(poly, pos, jitter)
            /\ target' = [kind |-> "hit", v |-> pos, jitter |-> jitter]
            /\ result' = [kind |-> "bool", v |-> containsPoint(poly, pos, jitter)]
    /\ op' = "containsPoint"
    /\ UNCHANGED <<scene, argsA, lineA, poly, vec, heap, geomOps, trail>>

NextHit == ContainsPoint

SpecHit == InitHit /\ [][NextHit]_vars

-----------------------------------------------------------------------------
(* The parse scene: PVector.parse of a string, then tipToTail of a list *)

MaxTokens == 3
MaxList == 3

\* what the strings are made of: two Cartesian terms, a polar term, signs, a space,
\* a tab, a no-break space and a character that belongs to nothing
CartesianTokens ==
    {<<"(", "1", ",", "0", ")">>, <<"(", "0", ",", "1", ")">>,
     <<"(", "২", ",", "০", ")">>}
PolarTokens == {<<"2", "@", "9", "0">>}
VectorTokens == CartesianTokens \cup PolarTokens
SignTokens == {<<"+">>, <<"-">>}
SpaceTokens == {<<" ">>, <<"\t">>, <<" ">>}
Tokens == VectorTokens \cup SignTokens \cup SpaceTokens \cup {<<"x">>}

RECURSIVE TokenLists(_)
TokenLists(k) ==
    IF k = 0 THEN {<<>>}
    ELSE TokenLists(k - 1) \cup
         {Append(l, t) : l \in {m \in TokenLists(k - 1) : Len(m) = k - 1}, t \in Tokens}

RECURSIVE Concat(_)
Concat(l) == IF Len(l) = 0 THEN <<>> ELSE Concat(SubSeq(l, 1, Len(l) - 1)) \o l[Len(l)]

\* the lists of objects, each object given by its index
RECURSIVE Lists(_, _)
Lists(n, k) ==
    IF k = 0 THEN {<<>>}
    ELSE Lists(n, k - 1) \cup
         {Append(l, i) : l \in {m \in Lists(n, k - 1) : Len(m) = k - 1}, i \in 1 .. n}

InitParse ==
    /\ scene = "parse"
    /\ argsA = NoLine
    /\ lineA = NoLine
    /\ poly = NoPolygon
    /\ vec = NoVector
    /\ heap = <<>>
    /\ geomOps = 0
    /\ trail = <<>>
    /\ target = NoLine
    /\ op = "init"
    /\ result = None

\* PVector.parse(string), a static method: what it returns depends on the string
\* alone, so the scene parses one string, and keeps the objects parse returned
Parse ==
    /\ scene = "parse"
    /\ op = "init"
    /\ \E tokens \in TokenLists(MaxTokens) :
        \E r \in {parse(Concat(tokens))} :
            /\ r.kind # "inexact"
            /\ target' = [kind |-> "string", v |-> Concat(tokens), tokens |-> tokens]
            /\ heap' = IF r.kind = "list" THEN r.v ELSE <<>>
            /\ result' = IF r.kind = "list"
                         THEN [kind |-> "list", v |-> [k \in 1 .. Len(r.v) |-> k]]
                         ELSE r
    /\ trail' = <<>>
    /\ op' = "parse"
    /\ UNCHANGED <<scene, argsA, lineA, poly, vec, geomOps>>

\* PVector.tipToTail(vecs), vecs a list of the objects parse returned
TipToTail ==
    /\ scene = "parse"
    /\ op = "parse"
    /\ \E vecs \in Lists(Len(heap), MaxList) :
        /\ heap' = tipToTail(heap, vecs)
        /\ target' = [kind |-> "list", v |-> vecs]
        /\ result' = [kind |-> "list", v |-> vecs]
    /\ trail' = Extend(<<>>, "tipToTail", None, heap)
    /\ op' = "tipToTail"
    /\ UNCHANGED <<scene, argsA, lineA, poly, vec, geomOps>>

NextParse == Parse \/ TipToTail

SpecParse == InitParse /\ [][NextParse]_vars

-----------------------------------------------------------------------------
(* The resize scene: polygons with whole and with fractional vertices, resized and
   resized back *)

\* a rectangle 3/2 wide and 1 high, and one that starts at (1/2, 1/2)
FractionalVertexLists ==
    {<<Pt(0, 0), <<Mk(3, 2), Zero>>, <<Mk(3, 2), One>>, Pt(0, 1)>>,
     <<<<Mk(1, 2), Mk(1, 2)>>, <<Mk(5, 2), Mk(1, 2)>>, <<Mk(5, 2), Mk(7, 2)>>,
       <<Mk(1, 2), Mk(7, 2)>>>>}

InitResize ==
    /\ scene = "resize"
    /\ argsA = NoLine
    /\ lineA = NoLine
    /\ \E pts \in VertexLists \cup FractionalVertexLists, pos \in PosArgs :
          poly = Polygon(pts, pos)
    /\ vec = NoVector
    /\ heap = <<>>
    /\ geomOps = 0
    /\ trail = <<>>
    /\ target = NoLine
    /\ op = "init"
    /\ result = None

\* poly.resize(size), size being poly.size as it was before the last resize
ResizeBack ==
    /\ scene = "resize"
    /\ op = "resize"
    /\ resizeOk(poly)
    /\ \E sz \in {size(trail[Len(trail)].before)} :
        /\ poly' = resize(poly, sz)
        /\ target' = [kind |-> "size", v |-> sz]
        /\ result' = [kind |-> "factors", v |-> resizeFactors(poly, sz)]
    /\ trail' = Remember("resizeBack", 0)
    /\ op' = "resizeBack"
    /\ UNCHANGED <<scene, argsA, lineA, vec, heap, geomOps>>

NextResize == Rotate \/ Resize \/ SetPos \/ ResizeBack

SpecResize == InitResize /\ [][NextResize]_vars

-----------------------------------------------------------------------------
(* Every scene *)

Init == InitLine \/ InitStyle \/ InitShapes \/ InitHit \/ InitParse \/ InitResize

Next == NextLine \/ NextStyle \/ NextShapes \/ NextHit \/ NextParse \/ NextResize

Spec == Init /\ [][Next]_vars

-----------------------------------------------------------------------------
(* Properties of Line *)

Dist2(p, q) ==
    LET dx == Sub(p[1], q[1])
        dy == Sub(p[2], q[2])
    IN  Add(Mul(dx, dx), Mul(dy, dy))

\* a parameter s lies in the line's range: [0, length], or anything when length is None
InRange(line, s) == line.length = None \/ (Ge(s, Zero) /\ Le(s, line.length))

\* C2: for two parallel lines, intersect returns a result exactly when the other
\* line's anchor is within resolution of self, on either side, and the parametric
\* ranges overlap; for two segments the result is then the midpoint of the overlap.
C2_ParallelIntersect ==
    (op = "intersect" /\ det(lineA, target.line) = Zero) =>
        LET other == target.line
            sd    == parameters(lineA, other.pos)
            near  == withinResolution(NumAbs(sd[2]))
            s1    == parameters(lineA, point(other, other.length))[1]
            lo    == NumMax(Zero, NumMin(sd[1], s1))
            hi    == NumMin(lineA.length, NumMax(sd[1], s1))
            over  == lineA.length = None \/ other.length = None \/ Le(lo, hi)
        IN  /\ (result # None) <=> (near /\ over)
            /\ (result # None /\ lineA.length # None /\ other.length # None)
                  => result = PointResult(point(lineA, Div(Add(lo, hi), Two)))

\* C3: a Line built from a start point and a vector has length None, a Line built
\* from two points has the distance between them as length, u is a unit vector in
\* both cases, and closest clamps to [0, length] only for a Line built from two points.
C3_LineOrSegment ==
    /\ op # "init" =>
        /\ argsA.point = None => lineA.length = None
        /\ argsA.point # None =>
              Mul(lineA.length, lineA.length) = Dist2(argsA.start, argsA.point.v)
        /\ Add(Mul(lineA.u[1], lineA.u[1]), Mul(lineA.u[2], lineA.u[2])) = One
    /\ (op = "closest" /\ argsA.point = None) =>
          result = PointResult(point(lineA, parameters(lineA, target.pt)[1]))

\* C4: for two lines that are not parallel, with (s1, s2) the solution of
\* pos1 + s1*u1 = pos2 + s2*u2, self.point(s1) is the point of both lines; intersect
\* returns that point or None; it returns the point only when s1 and s2 are each in
\* the range of their operand (any s for an infinite line, [0, length] for a segment);
\* and it returns None only when one of them is out of range or is, in exact terms,
\* an end of its range, 0 or the length: there the rounding of the floats decides
\* the test, the one place where the result is exact only up to rounding.
C4_CrossingUpToRounding ==
    (op = "intersect" /\ det(lineA, target.line) # Zero) =>
        LET other == target.line
            dt == det(lineA, other)
            dx == Sub(other.pos[1], lineA.pos[1])
            dy == Sub(other.pos[2], lineA.pos[2])
            s1 == Div(Sub(Mul(other.u[1], dy), Mul(other.u[2], dx)), dt)
            s2 == Div(Sub(Mul(lineA.u[1], dy), Mul(lineA.u[2], dx)), dt)
            p  == point(lineA, s1)
        IN  /\ p = point(other, s2)
            /\ result \in {None, PointResult(p)}
            /\ result # None =>
                  /\ InRange(lineA, s1) /\ InRange(other, s2)
                  /\ \E a \in {parameters(lineA, result.pt)} :
                        a[2] = Zero /\ InRange(lineA, a[1])
                  /\ \E b \in {parameters(other, result.pt)} :
                        b[2] = Zero /\ InRange(other, b[1])
            /\ result = None =>
                  \/ ~InRange(lineA, s1)
                  \/ ~InRange(other, s2)
                  \/ atEnd(s1, lineA)
                  \/ atEnd(s2, other)

\* two segments, one of them of a length that is no whole number, cross inside both
\* of them, and the point is returned
C4_Witness ==
    /\ op = "intersect"
    /\ det(lineA, target.line) # Zero
    /\ lineA.length # None /\ target.line.length # None
    /\ lineA.length.r # 1
    /\ result # None
    /\ LET c == crossingParameters(lineA, target.line)
       IN  /\ Gt(c.s1, Zero) /\ Lt(c.s1, lineA.length)
           /\ Gt(c.s2, Zero) /\ Lt(c.s2, target.line.length)
           /\ result = PointResult(point(lineA, c.s1))

\* the points of the segment that closest is compared with: k/Samples of the length
Samples == 4

\* C9: closest(P) is a point of the segment, at parameter s in [0, length], that is
\* at least as near to P as every other point of the segment: the projection of P
\* when it falls in [0, length], otherwise the nearer end.
C9_ClosestMinimises ==
    op = "closest" =>
        LET P  == target.pt
            R  == result.pt
            sd == parameters(lineA, R)
            s  == parameters(lineA, P)[1]
        IN  /\ sd[2] = Zero
            /\ Ge(sd[1], Zero) /\ Le(sd[1], lineA.length)
            /\ \A k \in 0 .. Samples :
                  Le(Dist2(P, R),
                     Dist2(P, point(lineA, Mul(Mk(k, Samples), lineA.length))))
            /\ (Ge(s, Zero) /\ Le(s, lineA.length)) => R = point(lineA, s)
            /\ Lt(s, Zero) => R = lineA.pos
            /\ Gt(s, lineA.length) => R = point(lineA, lineA.length)

\* the projection of P falls beyond the far end of a diagonal segment
C9_Witness ==
    /\ op = "closest"
    /\ lineA.length.r # 1
    /\ Gt(parameters(lineA, target.pt)[1], lineA.length)
    /\ result.pt = point(lineA, lineA.length)
    /\ parameters(lineA, target.pt)[2] # Zero

-----------------------------------------------------------------------------
(* Properties of Polygon and PVector *)

\* the last two operations on the polygon were rotate(a) and then rotate(-a)
PolygonThereAndBack(t) ==
    /\ Len(t) = 2
    /\ t[1].op = "rotate"
    /\ t[2].op = "rotate"
    /\ t[2].arg = -t[1].arg

\* the last two operations on the vector were rotate(a, xy) and then rotate(-a, xy)
VectorThereAndBack(t) ==
    /\ Len(t) = 2
    /\ t[1].op = "rotate"
    /\ t[2].op = "rotate"
    /\ t[2].arg.angle = -t[1].arg.angle
    /\ t[2].arg.xy = t[1].arg.xy

\* the tolerance of a round trip in floats: 2^-30, below 1e-9
floatTolerance == [neg |-> FALSE, m |-> natOne, e |-> -30]

\* two float points differ by no more than the tolerance in each coordinate
floatNear(p, q) ==
    \A i \in 1 .. 2 : floatLe(floatAbs(floatSub(p[i], q[i])), floatTolerance)

\* the polygon is as it was before the first of the operations of t
PolygonRestored(t) ==
    /\ poly.vertices = t[1].before.vertices
    /\ poly.pos = t[1].before.pos
    /\ poly.angle = t[1].before.angle
    /\ poly.held.pos = t[1].before.held.pos
    /\ \A k \in 1 .. Len(poly.held.vertices) :
          floatNear(poly.held.vertices[k], t[1].before.held.vertices[k])

\* the vector is as it was before the first of the operations of t
VectorRestored(t) ==
    /\ floatNear(vec.tail, t[1].before.tail)
    /\ vec.x = t[1].before.x
    /\ vec.y = t[1].before.y

\* C8: rotate(angle) and then rotate(-angle) restore the vertices, the anchor and the
\* angle of a Polygon, and (with the same pivot, or the default one) the tail and the
\* direction of a PVector, whatever operations on it came before.  The numbers of the
\* polygon are restored exactly, the floats that hold its vertices to within the
\* tolerance and the floats that hold its anchor exactly; the floats of the tail of
\* the vector are restored to within the tolerance and its components exactly.
C8_RotateRoundTrip ==
    CASE scene = "polygon" -> PolygonThereAndBack(trail) => PolygonRestored(trail)
      [] scene = "vector" -> VectorThereAndBack(trail) => VectorRestored(trail)
      [] scene = "pair" ->
            /\ PolygonThereAndBack(trail.poly) => PolygonRestored(trail.poly)
            /\ VectorThereAndBack(trail.vec) => VectorRestored(trail.vec)
      [] OTHER -> TRUE

\* a polygon anchored off its centre and a vector, each turned a quarter and turned
\* back, about a pivot off the vector in its case: the floats of the vertices and of
\* the tail are not the ones they were
C8_Witness ==
    /\ scene = "pair"
    /\ PolygonThereAndBack(trail.poly)
    /\ VectorThereAndBack(trail.vec)
    /\ trail.poly[2].before.vertices # poly.vertices
    /\ poly.pos # <<Mk(2 * poly.rect.x + poly.rect.w, 2), Mk(2 * poly.rect.y + poly.rect.h, 2)>>
    /\ poly.rect.w # poly.rect.h
    /\ poly.held.vertices # trail.poly[1].before.held.vertices
    /\ trail.vec[1].arg.xy # None
    /\ trail.vec[2].before.tail # vec.tail
    /\ vec.tail # trail.vec[1].before.tail

\* C10 as stated: components() returns x with the tail of the vector and y with its
\* tail at the tip of the vector, and leaves the vector, its value and its tail, as it
\* was before the call.
C10_ComponentsAsStated ==
    op = "components" =>
        LET x == result.v[1]
            y == result.v[2]
            v == target.v
        IN  /\ x.tail = v.tail
            /\ floatNear(y.tail, tip(v))
            /\ vec = v

\* C10, amended: components() returns the projections x (onto 0 degrees) and y (onto
\* 90 degrees) of the vector; x has the tail of the vector, y has its tip at the tip
\* of the vector and so its tail at the tip of x; x + y is the vector; and the vector,
\* its value and its tail, is as it was before the call.  The components are floats,
\* and what is computed from them is compared to within the tolerance.
C10_Components ==
    op = "components" =>
        LET x == result.v[1]
            y == result.v[2]
            v == target.v
        IN  /\ floatNear(<<x.x, x.y>>, <<v.x, floatZero>>)
            /\ floatNear(<<y.x, y.y>>, <<floatZero, v.y>>)
            /\ x.tail = v.tail
            /\ floatNear(tip(y), tip(v))
            /\ floatNear(y.tail, tip(x))
            /\ floatNear(<<floatAdd(x.x, y.x), floatAdd(x.y, y.y)>>, <<v.x, v.y>>)
            /\ vec = v

\* the components of a vector with neither component zero, placed off the origin,
\* whose magnitude was set before: its y does not start at its tip
C10_Witness ==
    /\ op = "components"
    /\ vec.x # floatZero /\ vec.y # floatZero
    /\ vec.tail # <<floatZero, floatZero>>
    /\ ~floatNear(result.v[2].tail, tip(vec))
    /\ geomOps > 0
    /\ \E k \in 1 .. Len(trail) : trail[k].op = "mag"

-----------------------------------------------------------------------------
(* Properties of the Polygon caches and of containsPoint *)

\* C1 (as the specification states it): whatever vertex and style mutations and reads
\* came before, the cached image and the cached segments are each empty or what the
\* polygon's current vertices and style give, and a read of image or of segments
\* returns what the current vertices and style give.
C1_CacheCoherent ==
    scene = "style" =>
        /\ poly.srf = None \/ poly.srf = render(poly)
        /\ poly.segCache = None \/ ~segmentsOk(poly)
              \/ poly.segCache = Tuple(segmentsOf(poly))
        /\ op = "image" => result = render(poly)
        /\ op = "segments" => result = Tuple(segmentsOf(poly))

\* the sides of the edges of a convex polygon that p lies on
EdgeSides(self, p) ==
    LET pts == self.vertices
        n   == Len(pts)
    IN  {Sign(Cross(pts[i], pts[(i % n) + 1], p)) : i \in 1 .. n}

StrictlyInside(self, p) == EdgeSides(self, p) \in {{1}, {-1}}
StrictlyOutside(self, p) == {1, -1} \subseteq EdgeSides(self, p)

\* C5 (as the specification states it): for a convex polygon and every jitter,
\* containsPoint is True for every point strictly inside the polygon and False for
\* every point strictly outside it.
C5_ContainsPoint ==
    op = "containsPoint" =>
        /\ StrictlyInside(poly, target.v) => result.v
        /\ StrictlyOutside(poly, target.v) => ~result.v

-----------------------------------------------------------------------------
(* Properties of PVector.parse and PVector.tipToTail *)

\* the tokens of a string that are not whitespace
Written(tokens) == SelectSeq(tokens, LAMBDA t : t \notin SpaceTokens)

\* a sequence of terms, each one possibly preceded by a sign; a polar term may start
\* with the sign of its magnitude, and ends where its digits end, so that no polar
\* term follows it at once
TermsAndSigns(tokens) ==
    LET t == Written(tokens)
    IN  \A i \in 1 .. Len(t) :
            \/ t[i] \in CartesianTokens
            \/ t[i] \in PolarTokens /\ (i < Len(t) => t[i + 1] \notin PolarTokens)
            \/ /\ t[i] \in SignTokens
               /\ i < Len(t)
               /\ \/ t[i + 1] \in VectorTokens
                  \/ /\ t[i + 1] \in SignTokens
                     /\ i + 1 < Len(t)
                     /\ t[i + 2] \in PolarTokens
                     /\ i > 1 => t[i - 1] \notin SignTokens

\* C6 (as the specification states it): parse raises ValueError whenever text remains
\* that belongs to no term, a sign that no term follows included, and returns a list
\* only when the whole input is a sequence of terms joined by signs.
C6_ParseRaises ==
    op = "parse" => (result = ValueError <=> ~TermsAndSigns(target.tokens))

\* the components a term stands for
TermValue(t) ==
    CASE t = <<"(", "1", ",", "0", ")">> -> <<1, 0>>
      [] t = <<"(", "0", ",", "1", ")">> -> <<0, 1>>
      [] t = <<"(", "২", ",", "০", ")">> -> <<2, 0>>
      [] t = <<"2", "@", "9", "0">> -> <<0, 2>>

\* the components of the terms of a string, negated by a "-" before the term and by a
\* "-" that is the sign of a polar term's magnitude
RECURSIVE SignedTerms(_)
SignedTerms(t) ==
    IF Len(t) = 0 THEN <<>>
    ELSE LET n    == Len(t)
             rest == SignedTerms(SubSeq(t, 1, n - 1))
             s1   == IF n > 1 /\ t[n - 1] = <<"-">> THEN -1 ELSE 1
             s2   == IF n > 2 /\ t[n - 1] \in SignTokens /\ t[n - 2] = <<"-">>
                     THEN -1 ELSE 1
         IN  IF t[n] \in VectorTokens
             THEN Append(rest, <<Int2Num(s1 * s2 * TermValue(t[n])[1]),
                                 Int2Num(s1 * s2 * TermValue(t[n])[2])>>)
             ELSE rest

\* what parse returned is laid out tip to tail from (0,0), with the components of the
\* terms, and ends at the sum
ParsedLayout ==
    op = "parse" /\ result.kind = "list" =>
        LET terms == SignedTerms(Written(target.tokens))
            n     == Len(heap)
        IN  /\ n = Len(terms)
            /\ \A k \in 1 .. n :
                  /\ floatNear(<<heap[k].x, heap[k].y>>, floatPair(terms[k]))
                  /\ heap[k].tail = IF k = 1 THEN <<floatZero, floatZero>>
                                    ELSE tip(heap[k - 1])
            /\ n > 0 => tip(heap[n]) = <<sum(heap).x, sum(heap).y>>

\* tipToTail left the tail of the first vector of the list and all components alone
Untouched ==
    LET before == trail[1].before
        first  == target.v[1]
    IN  /\ heap[first].tail = before[first].tail
        /\ \A i \in 1 .. Len(heap) : heap[i].x = before[i].x /\ heap[i].y = before[i].y

\* C7 (as the specification states it): parse returns the vectors tip to tail from
\* (0,0), a term after "-" negated, the last tip at the sum; and tipToTail of any list
\* leaves the first vector's tail and every vector's components untouched.
C7_TipToTailAsStated ==
    /\ ParsedLayout
    /\ op = "tipToTail" /\ Len(target.v) > 0 => Untouched

\* the first object of the list occurs in it once
FirstOccursOnce(vecs) == \A k \in 2 .. Len(vecs) : vecs[k] # vecs[1]

\* C7 (amended): parse returns the vectors tip to tail from (0,0), a term after "-"
\* negated, the last tip at the sum; and tipToTail of any list whose first vector
\* object does not occur in it again leaves the first vector's tail and every vector's
\* components untouched.
C7_TipToTail ==
    /\ ParsedLayout
    /\ op = "tipToTail" /\ Len(target.v) > 0 /\ FirstOccursOnce(target.v) => Untouched

\* parse returned two vectors or more, the second one not at (0,0), and tipToTail of a
\* list of two of them moved a tail
C7_Witness ==
    /\ op = "tipToTail"
    /\ Len(target.v) > 1
    /\ FirstOccursOnce(target.v)
    /\ trail[1].before[2].tail # <<floatZero, floatZero>>
    /\ heap # trail[1].before

-----------------------------------------------------------------------------
(* Properties of Polygon.resize *)

\* the width and the height of the bounding box of the vertices
BoxSize(pts) ==
    <<Sub(MaxOf(Column(pts, 1), 1), MinOf(Column(pts, 1), 1)),
      Sub(MaxOf(Column(pts, 2), 1), MinOf(Column(pts, 2), 1))>>

\* the last operation resized the polygon `before` to the size target.v
Resized == op \in {"resize", "resizeBack"}

\* the factors returned are size / bounding box, every vertex and the anchor were
\* multiplied by them, and the polygon reports the size asked for
ScaledAsAsked ==
    LET before == trail[Len(trail)].before
        box    == BoxSize(before.vertices)
        f      == <<Div(Int2Num(target.v[1]), box[1]), Div(Int2Num(target.v[2]), box[2])>>
    IN  /\ result.v = f
        /\ Len(poly.vertices) = Len(before.vertices)
        /\ \A k \in 1 .. Len(before.vertices) :
              poly.vertices[k] = <<Mul(f[1], before.vertices[k][1]),
                                   Mul(f[2], before.vertices[k][2])>>
        /\ poly.pos = <<Mul(f[1], before.pos[1]), Mul(f[2], before.pos[2])>>
        /\ size(poly) = target.v

\* the polygon is as it was before the resize that was undone
Restored ==
    /\ poly.vertices = trail[1].before.vertices
    /\ poly.pos = trail[1].before.pos

\* C11 (as the specification states it): after resize(size) of a polygon whose
\* bounding box has a width and a height, the factors returned are size[0]/width and
\* size[1]/height, every vertex and the anchor were multiplied by them and the
\* polygon's size is the size asked for; resize with the original size then restores
\* the vertices and the anchor.
C11_ResizeAsStated ==
    /\ Resized => ScaledAsAsked
    /\ op = "resizeBack" => Restored

====
